---- MODULE Spec2Model ----
(***************************************************************************)
(* Two-armed bandit task with reversal learning (DVS-Lab/tacs_bandit).     *)
(* The model follows the LSL-gated variant, code/bandit_main_v13.py, whose *)
(* run_trial / run / contingency code is line-for-line the same as in      *)
(* code/bandit_pygame.py and bandit_task_images.py, plus the marker queue, *)
(* the stop poll and the task_should_stop flag.                            *)
(* The variable variant selects whose run loop and exception handling      *)
(* apply ("v13", "main" for code/bandit_main.py, "pygame").  Further       *)
(* sections follow one part of the program by itself: the LSL trigger      *)
(* object, the trials on a seeded generator, one choice window with the    *)
(* pygame event queue, the stimulation modules of                          *)
(* code/local_starstim_module.py, the subject's condition, the controller  *)
(* and block protocol of starstim_module.py, the way out of run(), and the *)
(* listener threads of the trigger.                                        *)
(*                                                                         *)
(* Python values: an option is 1 or 2; a choice is the string "1", "2",    *)
(* "None", "escape" or "stim_stopped"; correct and reward are "True",      *)
(* "False" or "None".  Record fields that only carry rendering or timing   *)
(* data (flowers, slot positions, rt, wait_time, iti, timestamps) are not  *)
(* part of the state.                                                      *)
(***************************************************************************)
EXTENDS Integers, Sequences, FiniteSets, TLC

\* ---------------------------------------------------------------- bounds
MaxMinTrials == 1       \* min_trials_same_contingency ranges over 0..MaxMinTrials
MaxJitter    == 1       \* contingency_jitter ranges over 0..MaxJitter
MaxTrials    == 2       \* no trial is started once current_trial = MaxTrials
MaxQueue     == 1       \* markers buffered in marker_queue
MaxPut       == 3       \* markers put while the trigger is exercised alone
MaxWaited    == 3       \* polling intervals a wait is followed for
MaxDraws     == 7       \* draws followed on the stream of a seeded generator
MaxEnter     == 1       \* lines typed ahead on the console
MaxKeys      == 3       \* key events followed around one choice window
MaxCommands  == 3       \* command files the NIC interface writes
MaxIdLen     == 2       \* characters of a subject ID
MaxBlocks    == 2       \* blocks of a blocked design
MaxThreads   == 2       \* listener threads one trigger object starts

\* ------------------------------------------------------- program constants
RAMP_UP_START     == 201
RAMP_DOWN_START   == 202
STIMULATION_START == 203
STIMULATION_STOP  == 204
TASK_START_MARKER == 203

\* config['task']['win_fraction'] of the default configuration, 0.75, in
\* quarters
DefaultWinFraction == 3

\* np.random.random() in quarters: u stands for a value in [u/4, (u+1)/4)
Units == 0..3

\* probability 1 in quarters
Certain == Cardinality(Units)

\* the win_fraction values drawn: the two ends and the default
WinFractions == {0, DefaultWinFraction, Certain}

\* the codes the listener delivers here: the start code and the stop code
\* (each is also the "any other code" of the poll that looks for the other)
Markers == {STIMULATION_START, STIMULATION_STOP}

\* the codes a marker stream can carry: the four NIC-2 codes and one that
\* is none of them
WireCodes == {RAMP_UP_START, RAMP_DOWN_START, STIMULATION_START,
              STIMULATION_STOP, 0}

\* the timeouts a wait is called with, in polling intervals; 0 is None
Timeouts == {0, 1}

\* the run durations drawn, in clock ticks: none, and one tick, which a
\* trial can start before and end after
RunDurations == {0, 1}

\* the clock is not counted past the longest run duration
MaxElapsed == CHOOSE d \in RunDurations : \A e \in RunDurations : e <= d

VARIABLES
    variant,              \* which task program runs: "v13", "main" or "pygame"
    min_trials,           \* config['task']['min_trials_same_contingency']
    jitter,               \* config['task']['contingency_jitter']
    max_duration,         \* config['experiment']['run_duration_minutes'] * 60
    win_fraction,         \* config['task']['win_fraction'], in quarters
    stimulation_enabled,  \* self.stimulation_enabled after __init__
    test_mode,            \* lsl_trigger.test_mode
    listening,            \* lsl_trigger.listening (listener thread running)
    stim_condition,       \* self.stim_condition
    current_good,         \* self.current_good
    trial_in_contingency, \* self.trial_in_contingency
    contingency_trials,   \* self.contingency_trials
    current_trial,        \* self.current_trial
    trial_data,           \* self.trial_data
    task_should_stop,     \* self.task_should_stop
    run_started,          \* self.run_start_time is set
    elapsed,              \* time.time() - self.run_start_time, in ticks
    marker_queue,         \* lsl_trigger.marker_queue
    pc,                   \* position of the main thread
    trial_info,           \* local trial_info of the running run_trial
    choice,               \* local choice of the running run_trial
    correct,              \* local correct
    reward,               \* local reward
    phases,               \* phases the running trial has gone through
    end_cause,            \* which exit the run took
    saved,                \* the records in the CSV file save_data wrote last
    log,                  \* the messages printed so far
    reversals,            \* the count show_run_complete displayed, -1 if none
    summary,              \* the other figures show_run_complete computed
    flip_log,             \* per contingency update made: whether it flipped
    stop_in_run,          \* a stop marker was queued while the trial loop ran
    timeout,              \* argument of wait_for_stimulation_start, 0 for None
    waited,               \* time.time() - start_time of that call, in ticks
    ret,                  \* what the last call on the trigger returned
    put,                  \* every marker the listener has put, in order
    seen,                 \* every marker the calls have dequeued, in order
    rng_drawn,            \* what np.random has delivered since it was seeded
    stdin_lines,          \* lines typed on the console and not yet read by input()
    events,               \* the key events pending in the pygame event queue
    key_log,              \* every key event of the trial, in arrival order
    slot1_side,           \* self.slot1_side: where option 1 is shown
    current_protocol,     \* nic.current_protocol
    stimulation_active,   \* nic.stimulation_active
    commands,             \* the command files the NIC interface has written
    nic_ret,              \* what the last call on the NIC modules returned
    counterbalancing,     \* stimulation_manager.counterbalancing
    subject_id,           \* subject_info['subject_id'], a string of characters
    run_number,           \* self.run_number
    connected,            \* StarstimController.connected
    is_stimulating,       \* StarstimController.is_stimulating
    ctl_protocol,         \* StarstimController.current_protocol
    protocol_sequence,    \* StimulationProtocol.protocol_sequence
    current_block,        \* StimulationProtocol.current_block
    block_ret,            \* what the last call on these two objects returned
    file_path,            \* the path of the data file written, "none" if none
    writes,               \* how many times save_data has written the file
    cleanups,             \* how many times cleanup has run to its end
    threads,              \* where each listener thread started so far is
    join_waited           \* polling intervals the join of stop_listening waited

vars == <<variant, min_trials, jitter, max_duration, stimulation_enabled, test_mode,
          listening, stim_condition, current_good, trial_in_contingency,
          contingency_trials, current_trial, trial_data, task_should_stop,
          run_started, elapsed, marker_queue, pc, trial_info, choice,
          correct, reward, phases, end_cause, saved, log, reversals,
          summary, flip_log, stop_in_run, timeout, waited, ret, put, seen,
          win_fraction, rng_drawn, stdin_lines, events, key_log,
          slot1_side, current_protocol, stimulation_active, commands,
          nic_ret, counterbalancing, subject_id, run_number, connected,
          is_stimulating, ctl_protocol, protocol_sequence, current_block,
          block_ret, file_path, writes, cleanups, threads, join_waited>>

config == <<variant, min_trials, jitter, max_duration, win_fraction,
            stimulation_enabled, test_mode, stim_condition>>

\* what a run leaves behind: the data file, the console, the summary screen
report == <<saved, log, reversals, summary>>

\* one client's calls on the LSLStimulationTrigger object
trigger_call == <<timeout, waited, ret, put, seen, stdin_lines>>

\* LocalNICInterface.current_protocol and StimulationManager.counterbalancing
\* before anything was loaded or set up
NoProtocol == "None"
NoCounterbalancing == <<>>

\* the NIC interface and the stimulation manager after construction, and the
\* subject data before get_subject_info
nic == <<current_protocol, stimulation_active, commands>>
manager == <<nic_ret, counterbalancing, subject_id, run_number>>
\* starstim_module.py: the controller and the block protocol over it
controller == <<connected, is_stimulating, ctl_protocol>>
blocks == <<protocol_sequence, current_block, block_ret>>

\* the data file and the exit path; the listener threads of the trigger
persist == <<file_path, writes, cleanups>>
listener == <<threads, join_waited>>

modules == <<nic, manager, controller, blocks, persist, listener>>

\* file_path before save_data has written anything
NoPath == <<>>

ModulesIdle ==
    /\ current_protocol = NoProtocol
    /\ stimulation_active = FALSE
    /\ commands = <<>>
    /\ nic_ret = [call |-> "none", arg |-> "None", run |-> -1,
                  value |-> "None"]
    /\ counterbalancing = NoCounterbalancing
    /\ subject_id = <<>>
    /\ run_number = 0
    /\ connected = FALSE
    /\ is_stimulating = FALSE
    /\ ctl_protocol = "unset"
    /\ protocol_sequence = <<>>
    /\ current_block = 0
    /\ block_ret = [call |-> "none", value |-> "None"]
    /\ file_path = NoPath
    /\ writes = 0
    /\ cleanups = 0
    /\ threads = <<>>
    /\ join_waited = 0

\* what the task model leaves alone: the stream of a seeded generator and
\* the event queue, which the sections on one part of the program follow
aside == <<rng_drawn, events, key_log, slot1_side, modules>>

contingency == <<current_good, trial_in_contingency, contingency_trials>>

locals == <<trial_info, choice, correct, reward>>

\* ------------------------------------------------------------ pure helpers

\* a draw whose upper end is one too high (randint taken as inclusive)
ContingencyDurationsWide == { min_trials + d : d \in 0..(jitter + 1) }

\* _get_contingency_duration: min_trials + np.random.randint(0, jitter + 1)
ContingencyDurations == { min_trials + d : d \in 0..jitter }

\* the option number a response key stands for
OptionOf(c) == IF c = "1" THEN 1 ELSE 2

PyBool(b) == IF b THEN "True" ELSE "False"

\* the empty trial_info before a trial has started
NoTrialInfo == [trial_num |-> -1, trial_in_contingency |-> -1,
                current_good |-> 0, contingency_trials |-> -1]

\* a stop poll that looks for the start code instead of the stop code
RECURSIVE CheckStopWrongCode(_)
CheckStopWrongCode(q) ==
    IF q = <<>> THEN [found |-> FALSE, rest |-> <<>>]
    ELSE IF Head(q) = STIMULATION_START THEN [found |-> TRUE, rest |-> Tail(q)]
    ELSE CheckStopWrongCode(Tail(q))

\* a stop poll that goes on draining after it has found the stop marker
CheckStopDrainsAll(q) ==
    [found |-> \E i \in DOMAIN q : q[i] = STIMULATION_STOP, rest |-> <<>>]

\* check_for_stimulation_stop: get_nowait until the queue is empty or a
\* stop marker is dequeued; found tells which, rest is what stays queued.
RECURSIVE CheckStop(_)
CheckStop(q) ==
    IF q = <<>> THEN [found |-> FALSE, rest |-> <<>>]
    ELSE IF Head(q) = STIMULATION_STOP THEN [found |-> TRUE, rest |-> Tail(q)]
    ELSE CheckStop(Tail(q))

\* no call on the trigger has returned yet
NoCall == [call |-> "none", value |-> "None"]

\* the listener thread puts markers: listening, not test mode, inlet connected
Producing == listening /\ ~test_mode

BlockingPhases == {"fixation", "choice", "choice_loop", "highlight", "delay",
                   "feedback", "iti"}

InTrial == BlockingPhases \cup {"outcome", "append", "update"}

\* the while loop of run() is running: between run_start_time being set and
\* the break (or exit) that leaves the loop
InTrialLoop == run_started /\ pc \in InTrial \cup {"boundary"}

\* show_run_complete has computed nothing
NoSummary == [n_trials |-> -1, n_responses |-> -1, correct_pct |-> -1,
              reward_pct |-> -1]

\* the records with a response: t['choice'] is not None; taken over every
\* record
ResponsesAll(td) == DOMAIN td

\* responses = [t for t in run_trials if t['choice'] is not None]
Responses(td) == { i \in DOMAIN td : td[i].choice # "None" }

\* np.mean of n booleans of which c are true, times 100: the whole part
Pct(c, n) == (100 * c) \div n

\* the figures show_run_complete computes from the records td when some
\* record has a response
Summary(td) ==
    LET resp == Responses(td) IN
    [n_trials    |-> Len(td),
     n_responses |-> Cardinality(resp),
     correct_pct |-> Pct(Cardinality({ i \in resp : td[i].correct = "True" }),
                         Cardinality(resp)),
     reward_pct  |-> Pct(Cardinality({ i \in resp : td[i].reward = "True" }),
                         Cardinality(resp))]

\* a save_data whose guard is the wrong way round
SaveDataGuardInverted == IF trial_data # <<>> THEN saved ELSE trial_data

\* save_data: nothing is written while trial_data is empty, otherwise the
\* file is rewritten with all of trial_data
SaveData == IF trial_data = <<>> THEN saved ELSE trial_data

\* ------------------------------------------------------------------- Init
\* The state after TwoArmedBanditTask.__init__: a random good option, a
\* fresh contingency length, no trial yet; the listener thread runs when
\* stimulation is enabled and connect() succeeded (always so in test mode).
\* Only bandit_main_v13.py has the LSL trigger; bandit_pygame.py (and
\* bandit_task_images.py, the same program with other pictures) has no
\* stimulation at all.
Constructed(v) ==
    /\ variant = v
    /\ min_trials \in 0..MaxMinTrials
    /\ jitter \in 0..MaxJitter
    /\ max_duration \in RunDurations
    /\ win_fraction = DefaultWinFraction
    /\ stimulation_enabled \in BOOLEAN
    /\ test_mode \in BOOLEAN
    /\ listening \in BOOLEAN
    /\ (listening => stimulation_enabled)
    /\ (stimulation_enabled /\ test_mode => listening)
    /\ stim_condition \in {"baseline", "active"}
    /\ (variant # "v13" => ~listening /\ ~test_mode)
    /\ (variant = "pygame" => ~stimulation_enabled /\ stim_condition = "baseline")
    /\ current_good \in {1, 2}
    /\ trial_in_contingency = 0
    /\ contingency_trials \in ContingencyDurations
    /\ current_trial = 0
    /\ trial_data = <<>>
    /\ task_should_stop = FALSE
    /\ run_started = FALSE
    /\ elapsed = 0
    /\ marker_queue = <<>>
    /\ pc = "run"
    /\ trial_info = NoTrialInfo
    /\ choice = "None"
    /\ correct = "None"
    /\ reward = "None"
    /\ phases = <<>>
    /\ end_cause = "none"
    /\ saved = <<>>
    /\ log = {}
    /\ reversals = -1
    /\ summary = NoSummary
    /\ flip_log = <<>>
    /\ stop_in_run = FALSE
    /\ timeout = 0
    /\ waited = 0
    /\ ret = NoCall
    /\ put = <<>>
    /\ seen = <<>>
    /\ rng_drawn = <<>>
    /\ stdin_lines = 0
    /\ events = <<>>
    /\ key_log = <<>>
    /\ slot1_side = "left"
    /\ ModulesIdle

\* the LSL-gated task, bandit_main_v13.py
Init == Constructed("v13")

\* ---------------------------------------------------------------- actions

\* a listener thread that puts markers in test mode too
ListenInTestMode(m) ==
    /\ listening
    /\ pc # "exited"
    /\ Len(marker_queue) < MaxQueue
    /\ marker_queue' = Append(marker_queue, m)
    /\ stop_in_run' = (stop_in_run \/ (m = STIMULATION_STOP /\ InTrialLoop))
    /\ UNCHANGED <<config, aside, trigger_call, report, flip_log,
                   listening, contingency, current_trial, trial_data,
                   task_should_stop, run_started, elapsed, pc, locals,
                   phases, end_cause>>

\* _listen_loop: the background thread pulls a marker and puts it in the queue
Listen(m) ==
    /\ Producing
    /\ pc # "exited"
    /\ Len(marker_queue) < MaxQueue
    /\ marker_queue' = Append(marker_queue, m)
    /\ stop_in_run' = (stop_in_run \/ (m = STIMULATION_STOP /\ InTrialLoop))
    /\ UNCHANGED <<config, aside, trigger_call, report, flip_log,
                   listening, contingency, current_trial, trial_data,
                   task_should_stop, run_started, elapsed, pc, locals,
                   phases, end_cause>>

\* run(), up to the trial loop.  In bandit_main_v13.py a non-baseline run
\* shows the waiting screen (which reads stimulation_manager.nic and so
\* raises when there is no manager; the finally block then runs cleanup,
\* which stops the listener, and the traceback is printed) and waits for the
\* trigger.  In bandit_main.py an enabled stimulation is prepared and
\* started, and a failure (ok = FALSE) shows the error screen and returns.
\* Otherwise the run clock is started.
RunBegin ==
    /\ pc = "run"
    /\ \E ok \in BOOLEAN :
         IF variant = "v13" /\ stim_condition # "baseline" /\ ~stimulation_enabled
         THEN /\ pc' = "exited"
              /\ end_cause' = "error"
              /\ log' = log \cup {"Traceback"}
              /\ UNCHANGED <<run_started, elapsed>>
         ELSE IF variant = "v13" /\ stim_condition # "baseline" /\ ~test_mode
         THEN /\ pc' = "wait_start"
              /\ UNCHANGED <<run_started, elapsed, end_cause, log>>
         ELSE IF variant = "main" /\ stimulation_enabled /\ ~ok
         THEN /\ pc' = "exited"
              /\ end_cause' = "error"
              /\ log' = log \cup {"STIMULATION ERROR"}
              /\ UNCHANGED <<run_started, elapsed>>
         ELSE /\ pc' = "boundary"
              /\ run_started' = TRUE
              /\ elapsed' = 0
              /\ UNCHANGED <<end_cause, log>>
    /\ listening' = (listening /\ pc' # "exited")
    /\ UNCHANGED <<config, aside, trigger_call, saved, reversals, summary, flip_log, stop_in_run,
                   contingency, current_trial, trial_data,
                   task_should_stop, marker_queue, locals, phases>>

\* a wait that compares the marker with the stop code
WaitForStartOnStopCode ==
    /\ pc = "wait_start"
    /\ marker_queue # <<>>
    /\ marker_queue' = Tail(marker_queue)
    /\ IF Head(marker_queue) = STIMULATION_STOP
         THEN /\ pc' = "boundary"
              /\ run_started' = TRUE
              /\ elapsed' = 0
         ELSE UNCHANGED <<pc, run_started, elapsed>>
    /\ UNCHANGED <<config, aside, trigger_call, report, flip_log, stop_in_run,
                   listening, contingency, current_trial, trial_data,
                   task_should_stop, locals, phases, end_cause>>

\* wait_for_stimulation_start (no timeout): one marker_queue.get that
\* delivered a marker; only TASK_START_MARKER ends the wait.
WaitForStart ==
    /\ pc = "wait_start"
    /\ marker_queue # <<>>
    /\ marker_queue' = Tail(marker_queue)
    /\ IF Head(marker_queue) = TASK_START_MARKER
         THEN /\ pc' = "boundary"
              /\ run_started' = TRUE
              /\ elapsed' = 0
         ELSE UNCHANGED <<pc, run_started, elapsed>>
    /\ UNCHANGED <<config, aside, trigger_call, report, flip_log, stop_in_run,
                   listening, contingency, current_trial, trial_data,
                   task_should_stop, locals, phases, end_cause>>

\* time passes while the main thread sleeps or polls inside a trial
Tick ==
    /\ run_started
    /\ pc \in BlockingPhases
    /\ elapsed < MaxElapsed
    /\ elapsed' = elapsed + 1
    /\ UNCHANGED <<config, aside, trigger_call, report, flip_log, stop_in_run,
                   listening, contingency, current_trial, trial_data,
                   task_should_stop, run_started, marker_queue, pc, locals,
                   phases, end_cause>>

\* an elapsed-time test that lets a trial start at the deadline itself
DeadlineReachedStrict == run_started /\ elapsed > max_duration

\* the elapsed-time test of run_trial: elapsed >= max_duration
DeadlineReached == run_started /\ elapsed >= max_duration

\* run_trial, from the stop checks to the trial_info snapshot
RunTrialStart ==
    /\ pc = "boundary"
    /\ IF task_should_stop
         THEN /\ pc' = "loop_exit"
              /\ end_cause' = "should_stop"
              /\ UNCHANGED <<locals, phases>>
         ELSE IF DeadlineReached
         THEN /\ pc' = "loop_exit"
              /\ end_cause' = "elapsed"
              /\ UNCHANGED <<locals, phases>>
         ELSE /\ current_trial < MaxTrials
              /\ trial_info' = [trial_num |-> current_trial,
                                trial_in_contingency |-> trial_in_contingency,
                                current_good |-> current_good,
                                contingency_trials |-> contingency_trials]
              /\ choice' = "None"
              /\ correct' = "None"
              /\ reward' = "None"
              /\ phases' = <<>>
              /\ pc' = "fixation"
              /\ UNCHANGED end_cause
    /\ UNCHANGED <<config, aside, trigger_call, report, flip_log, stop_in_run,
                   listening, contingency, current_trial, trial_data,
                   task_should_stop, run_started, elapsed, marker_queue>>

\* a phase that looks at the run clock and gives the trial up at the deadline
PhaseChecksDeadline(from, name, to) ==
    /\ pc = from
    /\ IF run_started /\ elapsed >= max_duration
         THEN /\ pc' = "loop_exit"
              /\ end_cause' = "elapsed"
              /\ UNCHANGED phases
         ELSE /\ pc' = to
              /\ phases' = Append(phases, name)
              /\ UNCHANGED end_cause
    /\ UNCHANGED <<config, aside, trigger_call, report, flip_log, stop_in_run,
                   listening, contingency, current_trial, trial_data,
                   task_should_stop, run_started, elapsed, marker_queue,
                   locals>>

\* a phase that only shows something and sleeps
Phase(from, name, to) ==
    /\ pc = from
    /\ pc' = to
    /\ phases' = Append(phases, name)
    /\ UNCHANGED <<config, aside, trigger_call, report, flip_log, stop_in_run,
                   listening, contingency, current_trial, trial_data,
                   task_should_stop, run_started, elapsed, marker_queue,
                   locals, end_cause>>

ShowFixation == Phase("fixation", "fixation", "choice")

\* run_trial without the 'stim_stopped' branch: the stop result is taken
\* for a response
AfterResponseNoStopBranch(c) ==
    /\ choice' = c
    /\ phases' = Append(phases, "choice")
    /\ IF c = "escape"
         THEN /\ pc' = "exited"
              /\ end_cause' = "escape"
              /\ saved' = SaveData
              /\ UNCHANGED <<correct, reward, log>>
         ELSE IF c # "None"
         THEN /\ pc' = "highlight"
              /\ UNCHANGED <<correct, reward, end_cause, saved, log>>
         ELSE /\ correct' = "None"
              /\ reward' = "None"
              /\ pc' = "delay"
              /\ UNCHANGED <<end_cause, saved, log>>

\* run_trial that records a timed-out trial at once, without delay,
\* feedback and inter-trial interval
AfterResponseTimeoutSkipsPhases(c) ==
    /\ choice' = c
    /\ phases' = Append(phases, "choice")
    /\ IF c = "escape"
         THEN /\ pc' = "exited"
              /\ end_cause' = "escape"
              /\ saved' = SaveData
              /\ UNCHANGED <<correct, reward, log>>
         ELSE IF c = "stim_stopped"
         THEN /\ pc' = "loop_exit"
              /\ end_cause' = "stim_stopped"
              /\ log' = log \cup {"Stimulation stopped - ending task"}
              /\ UNCHANGED <<correct, reward, saved>>
         ELSE IF c # "None"
         THEN /\ pc' = "highlight"
              /\ UNCHANGED <<correct, reward, end_cause, saved, log>>
         ELSE /\ correct' = "None"
              /\ reward' = "None"
              /\ pc' = "append"
              /\ UNCHANGED <<end_cause, saved, log>>

\* a run_trial that records the trial an external stop has ended
AfterResponseStopAppends(c) ==
    /\ choice' = c
    /\ phases' = Append(phases, "choice")
    /\ IF c = "escape"
         THEN /\ pc' = "exited"
              /\ end_cause' = "escape"
              /\ saved' = SaveData
              /\ UNCHANGED <<correct, reward, log>>
         ELSE IF c = "stim_stopped"
         THEN /\ pc' = "append"
              /\ end_cause' = "stim_stopped"
              /\ UNCHANGED <<correct, reward, saved, log>>
         ELSE IF c # "None"
         THEN /\ pc' = "highlight"
              /\ UNCHANGED <<correct, reward, end_cause, saved, log>>
         ELSE /\ correct' = "None"
              /\ reward' = "None"
              /\ pc' = "delay"
              /\ UNCHANGED <<end_cause, saved, log>>

\* what run_trial does with the value get_response returned
AfterResponse(c) ==
    /\ choice' = c
    /\ phases' = Append(phases, "choice")
    /\ IF c = "escape"
         THEN /\ pc' = "exited"
              /\ end_cause' = "escape"
              /\ saved' = SaveData
              /\ UNCHANGED <<correct, reward, log>>
         ELSE IF c = "stim_stopped"
         THEN /\ pc' = "loop_exit"
              /\ end_cause' = "stim_stopped"
              /\ log' = log \cup {"Stimulation stopped - ending task"}
              /\ UNCHANGED <<correct, reward, saved>>
         ELSE IF c # "None"
         THEN /\ pc' = "highlight"
              /\ UNCHANGED <<correct, reward, end_cause, saved, log>>
         ELSE /\ correct' = "None"
              /\ reward' = "None"
              /\ pc' = "delay"
              /\ UNCHANGED <<end_cause, saved, log>>

\* a pass that returns 'stim_stopped' without setting task_should_stop
GetResponsePollNoLatch(ev) ==
    /\ pc \in {"choice", "choice_loop"}
    /\ LET r == CheckStop(marker_queue) IN
         /\ marker_queue' = r.rest
         /\ UNCHANGED task_should_stop
         /\ IF r.found
              THEN AfterResponse("stim_stopped")
              ELSE IF ev = "none"
                     THEN /\ pc' = "choice_loop"
                          /\ UNCHANGED <<choice, correct, reward, phases,
                                         end_cause, saved, log>>
                     ELSE AfterResponse(ev)
    /\ listening' = (listening /\ pc' # "exited")
    /\ UNCHANGED <<config, aside, trigger_call, reversals, summary, flip_log, stop_in_run,
                   contingency, current_trial, trial_data,
                   run_started, elapsed, trial_info>>

\* get_response: one pass of the polling loop, the stop poll first and then
\* the pending key event ev ("none" when no recognised key is pending); on
\* the abort key run_trial saves, runs cleanup (which stops the listener)
\* and exits the process
GetResponsePoll(ev) ==
    /\ pc \in {"choice", "choice_loop"}
    /\ LET r == CheckStop(marker_queue) IN
         /\ marker_queue' = r.rest
         /\ IF r.found
              THEN /\ task_should_stop' = TRUE
                   /\ AfterResponse("stim_stopped")
              ELSE /\ UNCHANGED task_should_stop
                   /\ IF ev = "none"
                        THEN /\ pc' = "choice_loop"
                             /\ UNCHANGED <<choice, correct, reward, phases,
                                            end_cause, saved, log>>
                        ELSE AfterResponse(ev)
    /\ listening' = (listening /\ pc' # "exited")
    /\ UNCHANGED <<config, aside, trigger_call, reversals, summary, flip_log, stop_in_run,
                   contingency, current_trial, trial_data,
                   run_started, elapsed, trial_info>>

\* a response window that can be over before its first pass (the loop
\* condition false at entry), so that a trial polls nothing
GetResponseTimeoutNoPass ==
    /\ pc \in {"choice", "choice_loop"}
    /\ AfterResponse("None")
    /\ UNCHANGED <<config, aside, trigger_call, reversals, summary, flip_log, stop_in_run,
                   listening, contingency, current_trial, trial_data,
                   task_should_stop, run_started, elapsed, marker_queue,
                   trial_info>>

\* get_response: max_response_time is over, (None, None) is returned
GetResponseTimeout ==
    /\ pc = "choice_loop"
    /\ AfterResponse("None")
    /\ UNCHANGED <<config, aside, trigger_call, reversals, summary, flip_log, stop_in_run,
                   listening, contingency, current_trial, trial_data,
                   task_should_stop, run_started, elapsed, marker_queue,
                   trial_info>>

ShowHighlight == Phase("highlight", "highlight", "outcome")

\* a comparison with the other option
IsCorrectInverted(c, good) == OptionOf(c) # good

\* correct = (choice == self.current_good)
IsCorrect(c, good) == OptionOf(c) = good

\* a reward probability that is win_fraction whatever the choice
RewardProbSame(c) == win_fraction

\* reward_prob: win_fraction for a correct choice, 1 - win_fraction otherwise
RewardProb(c) == IF c THEN win_fraction ELSE Certain - win_fraction

\* reward = np.random.random() < reward_prob
Rewarded(u, prob) == u < prob

\* outcome determination: correct and one Bernoulli draw u for reward
DetermineOutcome(u) ==
    /\ pc = "outcome"
    /\ correct' = PyBool(IsCorrect(choice, current_good))
    /\ reward' = PyBool(Rewarded(u, RewardProb(IsCorrect(choice, current_good))))
    /\ phases' = Append(phases, "outcome")
    /\ pc' = "delay"
    /\ UNCHANGED <<config, aside, trigger_call, report, flip_log, stop_in_run,
                   listening, contingency, current_trial, trial_data,
                   task_should_stop, run_started, elapsed, marker_queue,
                   trial_info, choice, end_cause>>

WaitDelay == Phase("delay", "delay", "feedback")

ShowFeedback == Phase("feedback", "feedback", "iti")

InterTrialInterval == Phase("iti", "iti", "append")

\* the record run_trial appends: the snapshot plus the behaviour
TrialRecord ==
    [trial_num |-> trial_info.trial_num,
     trial_in_contingency |-> trial_info.trial_in_contingency,
     current_good |-> trial_info.current_good,
     contingency_trials |-> trial_info.contingency_trials,
     choice |-> choice, correct |-> correct, reward |-> reward]

\* trial_info.update(...); self.trial_data.append(trial_info)
AppendRecord ==
    /\ pc = "append"
    /\ trial_data' = Append(trial_data, TrialRecord)
    /\ phases' = Append(phases, "append")
    /\ pc' = "update"
    /\ UNCHANGED <<config, aside, trigger_call, report, flip_log, stop_in_run,
                   listening, contingency, current_trial,
                   task_should_stop, run_started, elapsed, marker_queue,
                   locals, end_cause>>

\* a reversal test that lets the counter reach the length
ReversalDueLate(count, length) == count > length

\* the reversal test on the incremented counter
ReversalDue(count, length) == count >= length

\* a flip that leaves the good option where it was
ReversedStuck(good) == good

\* self.current_good = 3 - self.current_good
Reversed(good) == 3 - good

\* a contingency update made only on trials with a response
UpdateContingencySkipsTimeouts ==
    /\ pc = "update"
    /\ IF choice = "None"
         THEN UNCHANGED <<contingency, flip_log>>
         ELSE IF ReversalDue(trial_in_contingency + 1, contingency_trials)
         THEN /\ current_good' = Reversed(current_good)
              /\ trial_in_contingency' = 0
              /\ contingency_trials' \in ContingencyDurations
              /\ flip_log' = Append(flip_log, TRUE)
         ELSE /\ trial_in_contingency' = trial_in_contingency + 1
              /\ flip_log' = Append(flip_log, FALSE)
              /\ UNCHANGED <<current_good, contingency_trials>>
    /\ current_trial' = current_trial + 1
    /\ phases' = Append(phases, "update")
    /\ pc' = "boundary"
    /\ UNCHANGED <<config, aside, trigger_call, report, stop_in_run,
                   listening, trial_data, task_should_stop,
                   run_started, elapsed, marker_queue, locals, end_cause>>

\* "Update contingency", then current_trial += 1 and return True
UpdateContingency ==
    /\ pc = "update"
    /\ IF ReversalDue(trial_in_contingency + 1, contingency_trials)
         THEN /\ current_good' = Reversed(current_good)
              /\ trial_in_contingency' = 0
              /\ contingency_trials' \in ContingencyDurations
              /\ flip_log' = Append(flip_log, TRUE)
         ELSE /\ trial_in_contingency' = trial_in_contingency + 1
              /\ flip_log' = Append(flip_log, FALSE)
              /\ UNCHANGED <<current_good, contingency_trials>>
    /\ current_trial' = current_trial + 1
    /\ phases' = Append(phases, "update")
    /\ pc' = "boundary"
    /\ UNCHANGED <<config, aside, trigger_call, report, stop_in_run,
                   listening, trial_data, task_should_stop,
                   run_started, elapsed, marker_queue, locals, end_cause>>

\* a run loop that goes on to the next run_trial call after every exception
PhaseRaisesKeepsGoing ==
    /\ pc \in BlockingPhases
    /\ trial_info' = NoTrialInfo
    /\ choice' = "None"
    /\ correct' = "None"
    /\ reward' = "None"
    /\ phases' = <<>>
    /\ pc' = "boundary"
    /\ log' = log \cup {"Error during trial"}
    /\ UNCHANGED <<config, aside, trigger_call, saved, reversals, summary, flip_log,
                   stop_in_run, listening, end_cause, contingency,
                   current_trial, trial_data, task_should_stop, run_started,
                   elapsed, marker_queue>>

\* a run loop that counts the failed attempt as a trial before it goes on
PhaseRaisesCountsAttempt ==
    /\ pc \in BlockingPhases
    /\ trial_info' = NoTrialInfo
    /\ choice' = "None"
    /\ correct' = "None"
    /\ reward' = "None"
    /\ phases' = <<>>
    /\ current_trial' = current_trial + 1
    /\ IF variant = "main" /\ ~stimulation_enabled
         THEN pc' = "boundary" /\ UNCHANGED end_cause
         ELSE pc' = "loop_exit" /\ end_cause' = "error"
    /\ log' = log \cup {"Error during trial"}
    /\ UNCHANGED <<config, aside, trigger_call, saved, reversals, summary, flip_log,
                   stop_in_run, listening, contingency, trial_data,
                   task_should_stop, run_started, elapsed, marker_queue>>

\* a loop handler that breaks without printing the error
PhaseRaisesSilently ==
    /\ pc \in BlockingPhases
    /\ trial_info' = NoTrialInfo
    /\ choice' = "None"
    /\ correct' = "None"
    /\ reward' = "None"
    /\ phases' = <<>>
    /\ pc' = "loop_exit"
    /\ end_cause' = "error"
    /\ UNCHANGED <<config, aside, trigger_call, report, flip_log, stop_in_run,
                   listening, contingency, current_trial, trial_data,
                   task_should_stop, run_started, elapsed, marker_queue>>

\* an exception raised in one of the phases of a trial (a display call, a
\* marker send, a sleep).  bandit_main_v13.py prints the error and breaks;
\* bandit_main.py prints it and then, with stimulation enabled, shows the
\* error screen and returns (the finally block runs cleanup), otherwise
\* continues with another run_trial call; bandit_pygame.py has no handler
\* in the loop, so the exception leaves run() through the finally block.
\* The frame of run_trial is unwound, so its locals are gone.
PhaseRaises ==
    /\ pc \in BlockingPhases
    /\ trial_info' = NoTrialInfo
    /\ choice' = "None"
    /\ correct' = "None"
    /\ reward' = "None"
    /\ phases' = <<>>
    /\ IF variant = "v13"
         THEN /\ pc' = "loop_exit"
              /\ end_cause' = "error"
              /\ log' = log \cup {"Error during trial"}
              /\ UNCHANGED saved
         ELSE IF variant = "main" /\ ~stimulation_enabled
         THEN /\ pc' = "boundary"
              /\ log' = log \cup {"Error during trial"}
              /\ UNCHANGED <<end_cause, saved>>
         ELSE /\ pc' = "exited"
              /\ end_cause' = "error"
              /\ log' = log \cup {IF variant = "main" THEN "Error during trial"
                                                   ELSE "Traceback"}
              /\ saved' = SaveData
    /\ listening' = (listening /\ pc' # "exited")
    /\ UNCHANGED <<config, aside, trigger_call, reversals, summary, flip_log, stop_in_run,
                   contingency, current_trial, trial_data, task_should_stop,
                   run_started, elapsed, marker_queue>>

\* a reversal count that also compares the last record with the good option
\* the run ended with
CountReversalsWithLast(td) ==
    Cardinality({ i \in 2..Len(td) :
                      td[i].current_good # td[i - 1].current_good })
        + (IF td # <<>> /\ td[Len(td)].current_good # current_good
             THEN 1 ELSE 0)

\* the reversals loop of show_run_complete over the records td
CountReversals(td) ==
    Cardinality({ i \in 2..Len(td) :
                      td[i].current_good # td[i - 1].current_good })

\* run(), after the trial loop: "Run N complete!" is printed, the summary
\* screen shows the reversal count when some trial had a response, and the
\* finally block runs cleanup (save_data, stop_listening)
RunComplete ==
    /\ pc = "loop_exit"
    /\ pc' = "exited"
    /\ log' = log \cup {"Run complete!"}
    /\ reversals' = IF \E i \in DOMAIN trial_data : trial_data[i].choice # "None"
                      THEN CountReversals(trial_data)
                      ELSE -1
    /\ summary' = IF Responses(trial_data) # {}
                    THEN Summary(trial_data)
                    ELSE NoSummary
    /\ saved' = SaveData
    /\ listening' = FALSE
    /\ UNCHANGED <<config, aside, trigger_call, flip_log, stop_in_run,
                   contingency, current_trial, trial_data,
                   task_should_stop, run_started, elapsed, marker_queue,
                   locals, phases, end_cause>>

Next ==
    \/ \E m \in Markers : Listen(m)
    \/ RunBegin
    \/ WaitForStart
    \/ Tick
    \/ RunTrialStart
    \/ ShowFixation
    \/ \E ev \in {"none", "1", "2", "escape"} : GetResponsePoll(ev)
    \/ GetResponseTimeout
    \/ ShowHighlight
    \/ \E u \in Units : DetermineOutcome(u)
    \/ WaitDelay
    \/ ShowFeedback
    \/ InterTrialInterval
    \/ AppendRecord
    \/ UpdateContingency
    \/ PhaseRaises
    \/ RunComplete

Spec == Init /\ [][Next]_vars

\* A stimulation run with a live marker stream: stimulation enabled, not in
\* test mode, connect() succeeded, and a non-baseline condition, so that the
\* run waits for the start marker and markers can arrive at any moment of
\* any trial.  Every trial-level behaviour of the other configurations is
\* one of its behaviours (the one in which no further marker arrives).
InitStimRun ==
    /\ Init
    /\ stimulation_enabled
    /\ ~test_mode
    /\ listening
    /\ stim_condition = "active"

SpecStimRun == InitStimRun /\ [][Next]_vars

\* The same run from run() to its first call of run_trial, with the main
\* thread running: a marker_queue.get that has a marker to deliver returns
\* it, and the call of run_trial that follows the wait in run() is made.
\* Nothing is assumed of the listener.
NextRunStart ==
    \/ \E m \in Markers : Listen(m)
    \/ RunBegin
    \/ WaitForStart
    \/ RunTrialStart

FairRunStart ==
    /\ InitStimRun
    /\ [][NextRunStart]_vars
    /\ WF_vars(WaitForStart)
    /\ WF_vars(RunTrialStart)

\* Each of the task programs: bandit_main_v13.py in a stimulation run with a
\* live marker stream, bandit_main.py and bandit_pygame.py in every
\* configuration.  What the programs do with a trial is the same code; what
\* they do with an exception in a trial differs.
InitVariants ==
    \/ InitStimRun
    \/ \E v \in {"main", "pygame"} : Constructed(v)

SpecVariants == InitVariants /\ [][Next]_vars

\* ------------------------------------------------ the LSL trigger alone
\* The LSLStimulationTrigger object with its listener thread and one client
\* thread that calls wait_for_stimulation_start and
\* check_for_stimulation_stop in any order, with any timeout.  The task
\* state is not touched; pc is the client's position, "idle" between calls.

task_state == <<variant, min_trials, jitter, max_duration, win_fraction,
                aside, stimulation_enabled,
                stim_condition, contingency, current_trial, trial_data,
                task_should_stop, run_started, elapsed, locals, phases,
                end_cause, report, flip_log, stop_in_run>>

InitTrigger ==
    /\ variant = "v13"
    /\ min_trials = 1
    /\ jitter = 0
    /\ max_duration = 1
    /\ win_fraction = DefaultWinFraction
    /\ stimulation_enabled = TRUE
    /\ test_mode \in BOOLEAN
    /\ listening = TRUE
    /\ stim_condition = "active"
    /\ current_good = 1
    /\ trial_in_contingency = 0
    /\ contingency_trials = 1
    /\ current_trial = 0
    /\ trial_data = <<>>
    /\ task_should_stop = FALSE
    /\ run_started = FALSE
    /\ elapsed = 0
    /\ marker_queue = <<>>
    /\ pc = "idle"
    /\ trial_info = NoTrialInfo
    /\ choice = "None"
    /\ correct = "None"
    /\ reward = "None"
    /\ phases = <<>>
    /\ end_cause = "none"
    /\ saved = <<>>
    /\ log = {}
    /\ reversals = -1
    /\ summary = NoSummary
    /\ flip_log = <<>>
    /\ stop_in_run = FALSE
    /\ timeout = 0
    /\ waited = 0
    /\ ret = NoCall
    /\ put = <<>>
    /\ seen = <<>>
    /\ rng_drawn = <<>>
    /\ stdin_lines = 0
    /\ events = <<>>
    /\ key_log = <<>>
    /\ slot1_side = "left"
    /\ ModulesIdle

\* a listener that puts the marker at the head of the queue
ListenerPutsAtHead(m) ==
    /\ Producing
    /\ Len(put) < MaxPut
    /\ marker_queue' = <<m>> \o marker_queue
    /\ put' = Append(put, m)
    /\ UNCHANGED <<task_state, stdin_lines, test_mode, listening, pc, timeout, waited,
                   ret, seen>>

\* _listen_loop: a marker of any code is pulled and put in the queue
ListenerPuts(m) ==
    /\ Producing
    /\ Len(put) < MaxPut
    /\ marker_queue' = Append(marker_queue, m)
    /\ put' = Append(put, m)
    /\ UNCHANGED <<task_state, stdin_lines, test_mode, listening, pc, timeout, waited,
                   ret, seen>>

\* the client calls wait_for_stimulation_start(timeout = t)
CallWait(t) ==
    /\ pc = "idle"
    /\ pc' = "waiting"
    /\ timeout' = t
    /\ waited' = 0
    /\ ret' = NoCall
    /\ UNCHANGED <<task_state, stdin_lines, test_mode, listening, marker_queue, put, seen>>

\* the experimenter presses ENTER on the console
EnterPressed ==
    /\ stdin_lines < MaxEnter
    /\ stdin_lines' = stdin_lines + 1
    /\ UNCHANGED <<task_state, test_mode, listening, marker_queue, pc,
                   timeout, waited, ret, put, seen>>

\* a test mode that returns True at once, without reading the console
WaitTestModeNoInput ==
    /\ pc = "waiting"
    /\ test_mode
    /\ pc' = "idle"
    /\ ret' = [call |-> "wait", value |-> "True"]
    /\ UNCHANGED <<task_state, stdin_lines, test_mode, listening,
                   marker_queue, timeout, waited, put, seen>>

\* wait_for_stimulation_start in test mode: input() returns once a line
\* has been typed, then True
WaitTestMode ==
    /\ pc = "waiting"
    /\ test_mode
    /\ stdin_lines > 0
    /\ stdin_lines' = stdin_lines - 1
    /\ pc' = "idle"
    /\ ret' = [call |-> "wait", value |-> "True"]
    /\ UNCHANGED <<task_state, test_mode, listening, marker_queue, timeout,
                   waited, put, seen>>

\* a wait that takes the ramp-up code for the start code
WaitGetRampUp(d) ==
    /\ pc = "waiting"
    /\ ~test_mode
    /\ marker_queue # <<>>
    /\ (d = 1 => Len(marker_queue) = 1)
    /\ waited + d <= MaxWaited
    /\ waited' = waited + d
    /\ marker_queue' = Tail(marker_queue)
    /\ seen' = Append(seen, Head(marker_queue))
    /\ IF Head(marker_queue) = RAMP_UP_START
         THEN /\ pc' = "idle"
              /\ ret' = [call |-> "wait", value |-> "True"]
         ELSE UNCHANGED <<pc, ret>>
    /\ UNCHANGED <<task_state, stdin_lines, test_mode, listening, timeout, put>>

\* wait_for_stimulation_start, one pass in which marker_queue.get(timeout=0.1)
\* delivered a marker, after blocking for d polling intervals (0: it was
\* there; 1: the queue was empty and the marker, now the only one queued,
\* came at the end of the interval); only TASK_START_MARKER
\* ends the wait, and the timeout is not looked at
WaitGet(d) ==
    /\ pc = "waiting"
    /\ ~test_mode
    /\ marker_queue # <<>>
    /\ (d = 1 => Len(marker_queue) = 1)
    /\ waited + d <= MaxWaited
    /\ waited' = waited + d
    /\ marker_queue' = Tail(marker_queue)
    /\ seen' = Append(seen, Head(marker_queue))
    /\ IF Head(marker_queue) = TASK_START_MARKER
         THEN /\ pc' = "idle"
              /\ ret' = [call |-> "wait", value |-> "True"]
         ELSE UNCHANGED <<pc, ret>>
    /\ UNCHANGED <<task_state, stdin_lines, test_mode, listening, timeout, put>>

\* wait_for_stimulation_start, one pass in which the get blocked for the
\* whole polling interval and raised queue.Empty: the one place where the
\* timeout is tested, "if timeout and (time.time() - start_time) > timeout"
WaitEmpty ==
    /\ pc = "waiting"
    /\ ~test_mode
    /\ marker_queue = <<>>
    /\ waited < MaxWaited
    /\ waited' = waited + 1
    /\ IF timeout # 0 /\ waited' > timeout
         THEN /\ pc' = "idle"
              /\ ret' = [call |-> "wait", value |-> "False"]
         ELSE UNCHANGED <<pc, ret>>
    /\ UNCHANGED <<task_state, stdin_lines, test_mode, listening, marker_queue, timeout,
                   put, seen>>

\* the client calls check_for_stimulation_stop
CheckForStop ==
    /\ pc = "idle"
    /\ LET r == CheckStop(marker_queue) IN
         /\ marker_queue' = r.rest
         /\ seen' = seen \o SubSeq(marker_queue, 1,
                                    Len(marker_queue) - Len(r.rest))
         /\ ret' = [call |-> "check", value |-> PyBool(r.found)]
    /\ UNCHANGED <<task_state, stdin_lines, test_mode, listening, pc, timeout, waited, put>>

\* the client enters check_for_stimulation_stop; the listener may put
\* markers between the get_nowait calls of the loop
CheckBegin ==
    /\ pc = "idle"
    /\ pc' = "checking"
    /\ ret' = NoCall
    /\ UNCHANGED <<task_state, stdin_lines, test_mode, listening, marker_queue, timeout,
                   waited, put, seen>>

\* check_for_stimulation_stop, one get_nowait: queue.Empty ends the call
\* with False, a stop marker with True, any other marker is dropped and the
\* loop goes on
CheckGetNowait ==
    /\ pc = "checking"
    /\ IF marker_queue = <<>>
         THEN /\ pc' = "idle"
              /\ ret' = [call |-> "check", value |-> "False"]
              /\ UNCHANGED <<marker_queue, seen>>
         ELSE /\ marker_queue' = Tail(marker_queue)
              /\ seen' = Append(seen, Head(marker_queue))
              /\ IF Head(marker_queue) = STIMULATION_STOP
                   THEN /\ pc' = "idle"
                        /\ ret' = [call |-> "check", value |-> "True"]
                   ELSE UNCHANGED <<pc, ret>>
    /\ UNCHANGED <<task_state, stdin_lines, test_mode, listening, timeout, waited, put>>

NextTrigger ==
    \/ \E m \in WireCodes : ListenerPuts(m)
    \/ CheckBegin
    \/ CheckGetNowait
    \/ \E t \in Timeouts : CallWait(t)
    \/ EnterPressed
    \/ WaitTestMode
    \/ \E d \in {0, 1} : WaitGet(d)
    \/ WaitEmpty
    \/ CheckForStop

SpecTrigger == InitTrigger /\ [][NextTrigger]_vars

\* ------------------------------------------- trials on a seeded generator
\* bandit_pygame.py after np.random.seed: every draw of the program comes
\* from the one stream of the module-level generator, in program order.
\* rng_drawn is the stream as far as the program has read it; the values are
\* those of the seed, so two runs on the same seed read the same value at the
\* same position.  A trial is one run_trial call that returned True.

\* np.random.randint(lo, hi) from one value of the stream
RandInt(u, lo, hi) == lo + (u % (hi - lo))

\* __init__ has drawn current_good and the first contingency length,
\* setup_display the first slot positions; run() has started the clock
InitSeeded ==
    /\ variant = "pygame"
    /\ min_trials \in 1..MaxMinTrials
    /\ jitter = MaxJitter
    /\ max_duration = MaxElapsed
    /\ win_fraction \in WinFractions
    /\ stimulation_enabled = FALSE
    /\ test_mode = FALSE
    /\ listening = FALSE
    /\ stim_condition = "baseline"
    /\ rng_drawn \in [1..3 -> Units]
    /\ current_good = RandInt(rng_drawn[1], 1, 3)
    /\ trial_in_contingency = 0
    /\ contingency_trials = min_trials + RandInt(rng_drawn[2], 0, jitter + 1)
    /\ current_trial = 0
    /\ trial_data = <<>>
    /\ task_should_stop = FALSE
    /\ run_started = TRUE
    /\ elapsed = 0
    /\ marker_queue = <<>>
    /\ pc = "boundary"
    /\ trial_info = NoTrialInfo
    /\ choice = "None"
    /\ correct = "None"
    /\ reward = "None"
    /\ phases = <<>>
    /\ end_cause = "none"
    /\ saved = <<>>
    /\ log = {}
    /\ reversals = -1
    /\ summary = NoSummary
    /\ flip_log = <<>>
    /\ stop_in_run = FALSE
    /\ timeout = 0
    /\ waited = 0
    /\ ret = NoCall
    /\ put = <<>>
    /\ seen = <<>>
    /\ stdin_lines = 0
    /\ events = <<>>
    /\ key_log = <<>>
    /\ slot1_side = "left"
    /\ ModulesIdle

\* what a trial with the result c of get_response reads from the stream:
\* the slot positions, the reward draw when there was a response, the wait
\* time, and the new contingency length when the update reverses
TrialDraws(c, uslot, ureward, uwait, ulen) ==
    <<uslot>>
        \o (IF c # "None" THEN <<ureward>> ELSE <<>>)
        \o <<uwait>>
        \o (IF ReversalDue(trial_in_contingency + 1, contingency_trials)
              THEN <<ulen>> ELSE <<>>)

\* one run_trial call, from the elapsed-time check to "return True", with
\* the result c of get_response and the values the stream delivers
SeededRunTrial(c, uslot, ureward, uwait, ulen) ==
    LET drawn == TrialDraws(c, uslot, ureward, uwait, ulen)
        isc   == IsCorrect(c, current_good)
    IN
    /\ pc = "boundary"
    /\ ~task_should_stop
    /\ ~DeadlineReached
    /\ Len(rng_drawn) + Len(drawn) <= MaxDraws
    /\ c = "None" => ureward = 0
    /\ ~ReversalDue(trial_in_contingency + 1, contingency_trials) => ulen = 0
    /\ rng_drawn' = rng_drawn \o drawn
    /\ trial_data' = Append(trial_data,
          [trial_num |-> current_trial,
           trial_in_contingency |-> trial_in_contingency,
           current_good |-> current_good,
           contingency_trials |-> contingency_trials,
           choice |-> c,
           correct |-> IF c = "None" THEN "None" ELSE PyBool(isc),
           reward |-> IF c = "None" THEN "None"
                      ELSE PyBool(Rewarded(ureward, RewardProb(isc)))])
    /\ IF ReversalDue(trial_in_contingency + 1, contingency_trials)
         THEN /\ current_good' = Reversed(current_good)
              /\ trial_in_contingency' = 0
              /\ contingency_trials' = min_trials + RandInt(ulen, 0, jitter + 1)
         ELSE /\ trial_in_contingency' = trial_in_contingency + 1
              /\ UNCHANGED <<current_good, contingency_trials>>
    /\ current_trial' = current_trial + 1
    /\ UNCHANGED <<config, trigger_call, report, flip_log, stop_in_run,
                   listening, task_should_stop, run_started, elapsed,
                   marker_queue, pc, locals, phases, end_cause, events,
                   key_log, slot1_side, modules>>

\* a trial reads at least two values, so none is tried at the end of the
\* stream followed
NextSeeded ==
    /\ Len(rng_drawn) + 2 <= MaxDraws
    /\ \E c \in {"1", "2", "None"} :
         \E uslot, uwait \in Units :
           \E ureward \in (IF c = "None" THEN {0} ELSE Units) :
             \E ulen \in (IF ReversalDue(trial_in_contingency + 1,
                                          contingency_trials)
                             THEN Units ELSE {0}) :
               SeededRunTrial(c, uslot, ureward, uwait, ulen)

SpecSeeded == InitSeeded /\ [][NextSeeded]_vars

\* --------------------------------------------------- one choice window
\* get_response with the pygame event queue: key events arrive at any
\* moment (before the window opens, between two passes of its loop, after it
\* has returned); a pass takes every pending event with pygame.event.get()
\* and goes through them in order.  Nothing in the programs clears the
\* event queue.

\* pygame key events: K_1 and K_KP1 ("1"), K_2 and K_KP2 ("2"), K_a, K_l,
\* K_ESCAPE, and any other key ("x")
Keys == {"1", "2", "a", "l", "escape", "x"}

\* the keys get_response has a branch for
Recognised == Keys \ {"x"}

\* what get_response returns for a recognised key
KeyResult(k) ==
    IF k = "a" THEN (IF slot1_side = "left" THEN "1" ELSE "2")
    ELSE IF k = "l" THEN (IF slot1_side = "right" THEN "1" ELSE "2")
    ELSE k

\* a loop over the events that lets a later recognised key overwrite the
\* result of an earlier one
RECURSIVE FirstRecognisedKeepsLast(_)
FirstRecognisedKeepsLast(evs) ==
    IF evs = <<>> THEN "none"
    ELSE IF evs[Len(evs)] \in Recognised THEN KeyResult(evs[Len(evs)])
    ELSE FirstRecognisedKeepsLast(SubSeq(evs, 1, Len(evs) - 1))

\* the for loop over pygame.event.get(): the result of the first recognised
\* key of the list, "none" when the list holds none
RECURSIVE FirstRecognised(_)
FirstRecognised(evs) ==
    IF evs = <<>> THEN "none"
    ELSE IF Head(evs) \in Recognised THEN KeyResult(Head(evs))
    ELSE FirstRecognised(Tail(evs))

\* run_trial has shown the fixation cross and calls get_response; the keys
\* pressed since the last pygame.event.get() are pending
InitWindow ==
    /\ variant \in {"v13", "pygame"}
    /\ min_trials = 1
    /\ jitter = 0
    /\ max_duration = MaxElapsed
    /\ win_fraction = DefaultWinFraction
    /\ stimulation_enabled = (variant = "v13")
    /\ test_mode = FALSE
    /\ listening = (variant = "v13")
    /\ stim_condition = IF variant = "v13" THEN "active" ELSE "baseline"
    /\ rng_drawn = <<>>
    /\ current_good \in {1, 2}
    /\ trial_in_contingency = 0
    /\ contingency_trials = 1
    /\ current_trial = 0
    /\ trial_data = <<>>
    /\ task_should_stop = FALSE
    /\ run_started = TRUE
    /\ elapsed = 0
    /\ marker_queue = <<>>
    /\ pc = "choice"
    /\ trial_info = [trial_num |-> current_trial,
                     trial_in_contingency |-> trial_in_contingency,
                     current_good |-> current_good,
                     contingency_trials |-> contingency_trials]
    /\ choice = "None"
    /\ correct = "None"
    /\ reward = "None"
    /\ phases = <<"fixation">>
    /\ end_cause = "none"
    /\ saved = <<>>
    /\ log = {}
    /\ reversals = -1
    /\ summary = NoSummary
    /\ flip_log = <<>>
    /\ stop_in_run = FALSE
    /\ timeout = 0
    /\ waited = 0
    /\ ret = NoCall
    /\ put = <<>>
    /\ seen = <<>>
    /\ stdin_lines = 0
    /\ events \in {<<>>} \cup { <<k>> : k \in Keys }
    /\ key_log = events
    /\ slot1_side \in {"left", "right"}
    /\ ModulesIdle

\* the participant presses a key: pygame queues the event
KeyDown(k) ==
    /\ pc # "exited"
    /\ Len(key_log) < MaxKeys
    /\ events' = Append(events, k)
    /\ key_log' = Append(key_log, k)
    /\ UNCHANGED <<config, rng_drawn, slot1_side, modules, trigger_call, report,
                   flip_log, stop_in_run, listening, contingency,
                   current_trial, trial_data, task_should_stop, run_started,
                   elapsed, marker_queue, pc, locals, phases, end_cause>>

\* get_response: one pass of the polling loop.  The stop poll comes first
\* and on a stop marker returns before the events are read; otherwise
\* pygame.event.get() empties the event queue, the first recognised key of
\* the list returns and the rest of the list is dropped
GetResponsePass ==
    /\ pc \in {"choice", "choice_loop"}
    /\ LET r == CheckStop(marker_queue) IN
         /\ marker_queue' = r.rest
         /\ IF r.found
              THEN /\ task_should_stop' = TRUE
                   /\ AfterResponse("stim_stopped")
                   /\ UNCHANGED events
              ELSE /\ UNCHANGED task_should_stop
                   /\ events' = <<>>
                   /\ IF FirstRecognised(events) = "none"
                        THEN /\ pc' = "choice_loop"
                             /\ UNCHANGED <<choice, correct, reward, phases,
                                            end_cause, saved, log>>
                        ELSE AfterResponse(FirstRecognised(events))
    /\ listening' = (listening /\ pc' # "exited")
    /\ UNCHANGED <<config, rng_drawn, key_log, slot1_side, modules, trigger_call,
                   reversals, summary, flip_log, stop_in_run, contingency,
                   current_trial, trial_data, run_started, elapsed,
                   trial_info>>

NextWindow ==
    \/ \E k \in Keys : KeyDown(k)
    \/ Listen(STIMULATION_STOP)
    \/ GetResponsePass
    \/ GetResponseTimeout

SpecWindow == InitWindow /\ [][NextWindow]_vars

\* ------------------------------------------------ the stimulation modules
\* local_starstim_module.py: a LocalNICInterface and the StimulationManager
\* over it, with one client that calls their methods in any order.  A
\* command is a file written to the command directory; outside test mode
\* writing it can fail, and the failure surfaces as NICError.

\* the task configuration and the task's run, which the modules do not touch
settings == <<variant, min_trials, jitter, max_duration, win_fraction,
              stimulation_enabled, test_mode>>
task_run == <<listening, contingency, current_trial, trial_data,
              task_should_stop, run_started, elapsed, marker_queue, locals,
              phases, end_cause, report, flip_log, stop_in_run, trigger_call,
              rng_drawn, events, key_log, slot1_side>>

\* LocalNICInterface.protocols
Protocols ==
    [t \in {"active", "sham"} |->
        IF t = "active" THEN "DLPFC_Active" ELSE "DLPFC_Sham"]

\* the protocol types and run numbers a caller may pass
ProtocolTypes == {"active", "sham", "baseline", "lpfc"}
RunNumbers == 0..9

\* the characters of a subject ID: the decimal digits, and a letter
Digits == {"0", "1", "2", "3", "4", "5", "6", "7", "8", "9"}
Chars == Digits \cup {"x"}

\* the subject IDs of at most MaxIdLen characters, the empty one included
SubjectIds == UNION { [1..n -> Chars] : n \in 0..MaxIdLen }

\* str.isdigit() on these characters
IsDigit(id) == id # <<>> /\ \A i \in DOMAIN id : id[i] \in Digits

DigitValue(c) ==
    CASE c = "0" -> 0 [] c = "1" -> 1 [] c = "2" -> 2 [] c = "3" -> 3
      [] c = "4" -> 4 [] c = "5" -> 5 [] c = "6" -> 6 [] c = "7" -> 7
      [] c = "8" -> 8 [] c = "9" -> 9

\* int(id) for a string of decimal digits
RECURSIVE IntOf(_)
IntOf(id) ==
    IF id = <<>> THEN 0
    ELSE 10 * IntOf(SubSeq(id, 1, Len(id) - 1)) + DigitValue(id[Len(id)])

\* hash(subject_id) % 1000 differs from process to process
HashValues == {0, 1, 998, 999}

\* the subject number _generate_counterbalancing gets from a subject ID:
\* int(subject_id), or the hash when that raises ValueError
SubjectNumsOf(id) == IF IsDigit(id) THEN {IntOf(id)} ELSE HashValues

SubjectNums == UNION { SubjectNumsOf(id) : id \in SubjectIds }

\* a counterbalancing that gives every subject the active protocol first
GenerateCounterbalancingActiveFirst(subject_num) ==
    <<"baseline", "active", "active", "baseline",
      "baseline", "sham", "sham", "baseline">>

\* _generate_counterbalancing from the subject number on
GenerateCounterbalancing(subject_num) ==
    IF subject_num % 2 = 0
      THEN <<"baseline", "active", "active", "baseline",
             "baseline", "sham", "sham", "baseline">>
      ELSE <<"baseline", "sham", "sham", "baseline",
             "baseline", "active", "active", "baseline">>

\* a lookup that takes a run without an entry for an active run
GetRunConditionDefaultActive(r) ==
    IF r \in DOMAIN counterbalancing THEN counterbalancing[r] ELSE "active"

\* get_run_condition: counterbalancing.get(run_number, 'baseline')
GetRunCondition(r) ==
    IF r \in DOMAIN counterbalancing THEN counterbalancing[r] ELSE "baseline"

\* _write_command: always True in test mode, True or an exception otherwise
WriteOutcomes == IF test_mode THEN {TRUE} ELSE BOOLEAN

\* the construction of the two objects in a task with stimulation enabled
InitModules ==
    /\ Constructed("v13")
    /\ stimulation_enabled
    /\ min_trials = 1
    /\ jitter = 0
    /\ max_duration = MaxElapsed
    /\ current_good = 1
    /\ stim_condition = "baseline"

\* load_protocol(t) as far as the NIC state goes; res is what the caller gets
LoadProtocolDoes(t, ok, res) ==
    IF t \notin DOMAIN Protocols
      THEN res = "NICError" /\ UNCHANGED nic
      ELSE IF ok
      THEN /\ res = "True"
           /\ current_protocol' = Protocols[t]
           /\ commands' = Append(commands, "load_protocol")
           /\ UNCHANGED stimulation_active
      ELSE res = "NICError" /\ UNCHANGED nic

\* a start that does not look at current_protocol
StartStimulationDoesUnchecked(ok, res) ==
    IF ok
      THEN /\ res = "True"
           /\ stimulation_active' = TRUE
           /\ commands' = Append(commands, "start_stimulation")
           /\ UNCHANGED current_protocol
      ELSE res = "NICError" /\ UNCHANGED nic

\* start_stimulation
StartStimulationDoes(ok, res) ==
    IF current_protocol = NoProtocol
      THEN res = "NICError" /\ UNCHANGED nic
      ELSE IF ok
      THEN /\ res = "True"
           /\ stimulation_active' = TRUE
           /\ commands' = Append(commands, "start_stimulation")
           /\ UNCHANGED current_protocol
      ELSE res = "NICError" /\ UNCHANGED nic

\* stop_stimulation
StopStimulationDoes(ok, res) ==
    IF ~stimulation_active
      THEN res = "True" /\ UNCHANGED nic
      ELSE IF ok
      THEN /\ res = "True"
           /\ stimulation_active' = FALSE
           /\ commands' = Append(commands, "stop_stimulation")
           /\ UNCHANGED current_protocol
      ELSE res = "NICError" /\ UNCHANGED nic

Results == {"True", "NICError"}

\* what the manager returns for a result of the interface
Caught(res) == IF res = "NICError" THEN "False" ELSE res

\* a call on the modules: the client is between two steps of the task
ModuleCall(name, a, r, value) ==
    /\ nic_ret' = [call |-> name, arg |-> a, run |-> r, value |-> value]
    /\ UNCHANGED <<settings, stim_condition, pc, task_run, subject_id,
                   run_number, controller, blocks, persist, listener>>

LoadProtocol(t) ==
    /\ Len(commands) < MaxCommands
    /\ \E ok \in WriteOutcomes, res \in Results :
         /\ LoadProtocolDoes(t, ok, res)
         /\ ModuleCall("load_protocol", t, -1, res)
    /\ UNCHANGED counterbalancing

StartStimulation ==
    /\ Len(commands) < MaxCommands
    /\ \E ok \in WriteOutcomes, res \in Results :
         /\ StartStimulationDoes(ok, res)
         /\ ModuleCall("start_stimulation", "None", -1, res)
    /\ UNCHANGED counterbalancing

StopStimulation ==
    /\ Len(commands) < MaxCommands
    /\ \E ok \in WriteOutcomes, res \in Results :
         /\ StopStimulationDoes(ok, res)
         /\ ModuleCall("stop_stimulation", "None", -1, res)
    /\ UNCHANGED counterbalancing

\* setup_counterbalancing for the subject number num
SetupCounterbalancing(num) ==
    /\ counterbalancing' = GenerateCounterbalancing(num)
    /\ ModuleCall("setup_counterbalancing", "None", -1, "None")
    /\ UNCHANGED nic

PrepareRun(r) ==
    /\ Len(commands) < MaxCommands
    /\ IF GetRunCondition(r) = "baseline"
         THEN ModuleCall("prepare_run", "None", r, "True") /\ UNCHANGED nic
         ELSE \E ok \in WriteOutcomes, res \in Results :
                /\ LoadProtocolDoes(GetRunCondition(r), ok, res)
                /\ ModuleCall("prepare_run", "None", r, Caught(res))
    /\ UNCHANGED counterbalancing

StartRunStimulation(r) ==
    /\ Len(commands) < MaxCommands
    /\ IF GetRunCondition(r) = "baseline"
         THEN ModuleCall("start_run_stimulation", "None", r, "True") /\ UNCHANGED nic
         ELSE \E ok \in WriteOutcomes, res \in Results :
                /\ StartStimulationDoes(ok, res)
                /\ ModuleCall("start_run_stimulation", "None", r, Caught(res))
    /\ UNCHANGED counterbalancing

StopRunStimulation(r) ==
    /\ Len(commands) < MaxCommands
    /\ IF GetRunCondition(r) = "baseline"
         THEN ModuleCall("stop_run_stimulation", "None", r, "True") /\ UNCHANGED nic
         ELSE \E ok \in WriteOutcomes, res \in Results :
                /\ StopStimulationDoes(ok, res)
                /\ ModuleCall("stop_run_stimulation", "None", r, Caught(res))
    /\ UNCHANGED counterbalancing

NextModules ==
    \/ \E t \in ProtocolTypes : LoadProtocol(t)
    \/ StartStimulation
    \/ StopStimulation
    \/ \E num \in SubjectNums : SetupCounterbalancing(num)
    \/ \E r \in RunNumbers : PrepareRun(r)
    \/ \E r \in RunNumbers : StartRunStimulation(r)
    \/ \E r \in RunNumbers : StopRunStimulation(r)

SpecModules == InitModules /\ [][NextModules]_vars

\* ------------------------------------------------- the subject's condition
\* get_subject_info of bandit_main_v13.py: the subject ID and the run number
\* typed on the console give the run's stim_condition, through the
\* stimulation manager when stimulation is enabled and through the fallback
\* logic otherwise.

\* the fallback logic of get_subject_info
FallbackCondition(subject_num, r) ==
    IF subject_num % 2 = 0
      THEN (IF r \in {2, 3} THEN "active"
            ELSE IF r \in {6, 7} THEN "sham" ELSE "baseline")
      ELSE (IF r \in {2, 3} THEN "sham"
            ELSE IF r \in {6, 7} THEN "active" ELSE "baseline")

\* the task is constructed and run() has not asked for the subject yet
InitSubject ==
    /\ Constructed("v13")
    /\ min_trials = 1
    /\ jitter = 0
    /\ max_duration = MaxElapsed
    /\ current_good = 1
    /\ stim_condition = "baseline"

\* get_subject_info for the subject ID id and the run number r (the input
\* loop accepts 1..8 only); h is the hash the manager falls back on
GetSubjectInfo(id, r, h) ==
    /\ run_number = 0
    /\ subject_id' = id
    /\ run_number' = r
    /\ IF stimulation_enabled
         THEN /\ counterbalancing' =
                    GenerateCounterbalancing(IF IsDigit(id) THEN IntOf(id) ELSE h)
              /\ stim_condition' =
                    (IF r \in DOMAIN counterbalancing'
                       THEN counterbalancing'[r] ELSE "baseline")
         ELSE /\ stim_condition' =
                    FallbackCondition(IF IsDigit(id) THEN IntOf(id) ELSE 0, r)
              /\ UNCHANGED counterbalancing
    /\ UNCHANGED <<settings, pc, task_run, nic, nic_ret, controller, blocks,
                   persist, listener>>

NextSubject ==
    /\ run_number = 0
    /\ \E id \in SubjectIds, r \in 1..8 :
         \E h \in (IF IsDigit(id) THEN {0} ELSE HashValues) :
           GetSubjectInfo(id, r, h)

SpecSubject == InitSubject /\ [][NextSubject]_vars

\* ------------------------------------------ the controller and its blocks

\* starstim_module.py: a StimulationProtocol over a StarstimController built
\* with test_mode; both objects are driven by their public methods alone.

\* the keys of electrode_configs
ElectrodeConfigs == {"lpfc", "rtpj", "sham"}

\* the names a caller may put in a block list; "active" is no key
ProtocolNames == ElectrodeConfigs \cup {"active"}

BlockSequences == UNION { [1..n -> ProtocolNames] : n \in 0..MaxBlocks }

\* the controller as a value, to follow one call after another in a method
Controller ==
    [connected |-> connected, is_stimulating |-> is_stimulating,
     protocol |-> ctl_protocol]

\* configure_stimulation(p): an unknown name leaves the controller alone
ConfigureStimulation(c, p) ==
    IF p \notin ElectrodeConfigs THEN c ELSE [c EXCEPT !.protocol = p]

ConfigureStimulationReturns(c, p) ==
    IF p \notin ElectrodeConfigs THEN "False" ELSE "True"

\* start_stimulation(): refused without a connection outside test mode and
\* while stimulating; otherwise is_stimulating becomes True
StartStimulationOn(c) ==
    IF ~c.connected /\ ~test_mode THEN c
    ELSE IF c.is_stimulating THEN c
    ELSE [c EXCEPT !.is_stimulating = TRUE]

\* in test mode the start prints current_protocol, an attribute that exists
\* only after a successful configure_stimulation
StartStimulationRaises(c) ==
    /\ c.connected \/ test_mode
    /\ ~c.is_stimulating
    /\ test_mode
    /\ c.protocol = "unset"

StartStimulationReturns(c) ==
    IF ~c.connected /\ ~test_mode THEN "False"
    ELSE IF c.is_stimulating THEN "False"
    ELSE IF StartStimulationRaises(c) THEN "AttributeError"
    ELSE "True"

\* stop_stimulation()
StopStimulationOn(c) == [c EXCEPT !.is_stimulating = FALSE]

StopStimulationReturns(c) == IF c.is_stimulating THEN "True" ELSE "False"

\* the controller after a call, and what the call returned
ControllerBecomes(c, name, value) ==
    /\ connected' = c.connected
    /\ is_stimulating' = c.is_stimulating
    /\ ctl_protocol' = c.protocol
    /\ block_ret' = [call |-> name, value |-> value]
    /\ UNCHANGED <<settings, stim_condition, pc, task_run, nic, manager,
                   persist, listener>>

\* connect(): True in test mode; the device connection is not implemented
CtlConnect ==
    /\ ControllerBecomes([Controller EXCEPT !.connected = test_mode],
                         "connect", IF test_mode THEN "True" ELSE "False")
    /\ UNCHANGED <<protocol_sequence, current_block>>

CtlConfigureStimulation(p) ==
    /\ ControllerBecomes(ConfigureStimulation(Controller, p),
                         "configure_stimulation",
                         ConfigureStimulationReturns(Controller, p))
    /\ UNCHANGED <<protocol_sequence, current_block>>

CtlStartStimulation ==
    /\ ControllerBecomes(IF StartStimulationRaises(Controller)
                           THEN Controller
                           ELSE StartStimulationOn(Controller),
                         "start_stimulation",
                         StartStimulationReturns(Controller))
    /\ UNCHANGED <<protocol_sequence, current_block>>

CtlStopStimulation ==
    /\ ControllerBecomes(StopStimulationOn(Controller), "stop_stimulation",
                         StopStimulationReturns(Controller))
    /\ UNCHANGED <<protocol_sequence, current_block>>

\* disconnect(): stops a running stimulation, then drops the connection
CtlDisconnect ==
    /\ ControllerBecomes([StopStimulationOn(Controller)
                            EXCEPT !.connected = FALSE],
                         "disconnect", "None")
    /\ UNCHANGED <<protocol_sequence, current_block>>

\* setup_blocked_design(blocks, trials_per_block)
SetupBlockedDesign(seq) ==
    /\ protocol_sequence' = seq
    /\ current_block' = 0
    /\ ControllerBecomes(Controller, "setup_blocked_design", "None")

\* start_block(): False past the last block; otherwise configures and starts
\* the controller, ignores what both calls return, and returns True
StartBlock ==
    IF current_block >= Len(protocol_sequence)
      THEN /\ ControllerBecomes(Controller, "start_block", "False")
           /\ UNCHANGED <<protocol_sequence, current_block>>
      ELSE LET protocol == protocol_sequence[current_block + 1]
               configured == ConfigureStimulation(Controller, protocol)
           IN  /\ IF StartStimulationRaises(configured)
                    THEN ControllerBecomes(configured, "start_block",
                                           "AttributeError")
                    ELSE ControllerBecomes(StartStimulationOn(configured),
                                           "start_block", "True")
               /\ UNCHANGED <<protocol_sequence, current_block>>

\* end_block(): stops the controller and moves to the next block
EndBlock ==
    /\ current_block <= MaxBlocks
    /\ current_block' = current_block + 1
    /\ ControllerBecomes(StopStimulationOn(Controller), "end_block", "None")
    /\ UNCHANGED protocol_sequence

NextBlocks ==
    \/ CtlConnect
    \/ \E p \in ProtocolNames : CtlConfigureStimulation(p)
    \/ CtlStartStimulation
    \/ CtlStopStimulation
    \/ CtlDisconnect
    \/ \E seq \in BlockSequences : SetupBlockedDesign(seq)
    \/ StartBlock
    \/ EndBlock

SpecBlocks == InitModules /\ [][NextBlocks]_vars

\* ------------------------------------------------------ the way out of run

\* bandit_main_v13.py: the calls of save_data and cleanup on the way out of
\* run(), one call a step.  The abort key makes run_trial call save_data,
\* then cleanup, then sys.exit, whose SystemExit passes the handlers of run()
\* and reaches the cleanup of the finally block; every other way out goes
\* through show_run_complete to the same finally block.

\* data_dir / filename: built from subject_info alone, whose 'date' entry
\* get_subject_info sets once
DataPath == <<"sub", subject_id, "run", run_number, "task-bandit">>

\* what stays as it is while the task saves and cleans up
beside_exit == <<config, rng_drawn, events, key_log, slot1_side, nic, manager,
                 controller, blocks, listener, trigger_call, flip_log,
                 stop_in_run, contingency, current_trial, trial_data,
                 task_should_stop, run_started, elapsed, marker_queue,
                 trial_info, correct, reward>>

\* a save_data that opens the file for appending
SaveDataCallAppends ==
    IF trial_data = <<>>
      THEN UNCHANGED <<saved, file_path, writes>>
      ELSE /\ saved' = saved \o trial_data
           /\ file_path' = DataPath
           /\ writes' = writes + 1

\* save_data(): nothing without a record; otherwise to_csv writes every
\* record of trial_data, in order, over the file at the path
SaveDataCall ==
    IF trial_data = <<>>
      THEN UNCHANGED <<saved, file_path, writes>>
      ELSE /\ saved' = trial_data
           /\ file_path' = DataPath
           /\ writes' = writes + 1

\* cleanup(): save_data, stop_listening, the caught disconnect, pygame.quit
Cleanup ==
    /\ SaveDataCall
    /\ listening' = FALSE
    /\ cleanups' = cleanups + 1

\* a run without stimulation, so that no marker ends a trial
InitExit ==
    /\ Constructed("v13")
    /\ ~stimulation_enabled
    /\ ~test_mode
    /\ min_trials = 1
    /\ jitter = 0
    /\ max_duration = MaxElapsed
    /\ current_good = 1
    /\ stim_condition = "baseline"

\* run_trial, the abort key returned by get_response: save_data()
AbortSaveData ==
    /\ pc \in {"choice", "choice_loop"}
    /\ ~CheckStop(marker_queue).found
    /\ pc' = "abort_cleanup"
    /\ choice' = "escape"
    /\ phases' = Append(phases, "choice")
    /\ end_cause' = "escape"
    /\ SaveDataCall
    /\ UNCHANGED <<beside_exit, listening, cleanups, log, reversals, summary>>

\* run_trial after that save_data: cleanup(), then sys.exit()
AbortCleanup ==
    /\ pc = "abort_cleanup"
    /\ pc' = "finally"
    /\ Cleanup
    /\ UNCHANGED <<beside_exit, choice, phases, end_cause, log, reversals,
                   summary>>

\* run(), after the trial loop: the summary screen
ShowRunComplete ==
    /\ pc = "loop_exit"
    /\ pc' = "finally"
    /\ log' = log \cup {"Run complete!"}
    /\ reversals' = IF \E i \in DOMAIN trial_data : trial_data[i].choice # "None"
                      THEN CountReversals(trial_data)
                      ELSE -1
    /\ summary' = IF Responses(trial_data) # {}
                    THEN Summary(trial_data)
                    ELSE NoSummary
    /\ UNCHANGED <<beside_exit, choice, phases, end_cause, listening, saved,
                   persist>>

\* run(), the finally block: cleanup()
FinallyCleanup ==
    /\ pc = "finally"
    /\ pc' = "exited"
    /\ Cleanup
    /\ UNCHANGED <<beside_exit, choice, phases, end_cause, log, reversals,
                   summary>>

NextExit ==
    \/ RunBegin
    \/ Tick
    \/ RunTrialStart
    \/ ShowFixation
    \/ \E ev \in {"none", "1", "2"} : GetResponsePoll(ev)
    \/ GetResponseTimeout
    \/ ShowHighlight
    \/ \E u \in Units : DetermineOutcome(u)
    \/ WaitDelay
    \/ ShowFeedback
    \/ InterTrialInterval
    \/ AppendRecord
    \/ UpdateContingency
    \/ PhaseRaises
    \/ AbortSaveData
    \/ AbortCleanup
    \/ ShowRunComplete
    \/ FinallyCleanup

SpecExit == InitExit /\ [][NextExit]_vars

\* ------------------------------------------------------ the listener threads

\* bandit_main_v13.py: an LSLStimulationTrigger with a connected inlet, its
\* start_listening and stop_listening called in any order by one client, and
\* every thread start_listening has started.  A thread is at "test" (the
\* while condition), "pulling" (pull_sample or sleep, 0.1 s at most) or
\* "dead" (_listen_loop has returned).  Time passes in intervals of 0.1 s: a
\* pull or sleep ends with the interval, and a thread that is to test the
\* flag does so before the next interval ends.  pc is the client's position.

\* join(timeout=1.0) in intervals of the 0.1 s of pull_sample and sleep
JoinIntervals == 10

Alive == { i \in DOMAIN threads : threads[i] # "dead" }

\* everything but the trigger's flag, queue and threads
beside_listener == <<config, rng_drawn, events, key_log, slot1_side, nic,
                     manager, controller, blocks, persist, contingency,
                     current_trial, trial_data, task_should_stop, run_started,
                     elapsed, locals, phases, end_cause, report, flip_log,
                     stop_in_run, timeout, waited, ret, seen, stdin_lines>>

\* the trigger object after __init__: not listening, no thread
InitListener ==
    /\ variant = "v13"
    /\ min_trials = 1
    /\ jitter = 0
    /\ max_duration = 1
    /\ win_fraction = DefaultWinFraction
    /\ stimulation_enabled = TRUE
    /\ test_mode \in BOOLEAN
    /\ listening = FALSE
    /\ stim_condition = "active"
    /\ current_good = 1
    /\ trial_in_contingency = 0
    /\ contingency_trials = 1
    /\ current_trial = 0
    /\ trial_data = <<>>
    /\ task_should_stop = FALSE
    /\ run_started = FALSE
    /\ elapsed = 0
    /\ marker_queue = <<>>
    /\ pc = "idle"
    /\ trial_info = NoTrialInfo
    /\ choice = "None"
    /\ correct = "None"
    /\ reward = "None"
    /\ phases = <<>>
    /\ end_cause = "none"
    /\ saved = <<>>
    /\ log = {}
    /\ reversals = -1
    /\ summary = NoSummary
    /\ flip_log = <<>>
    /\ stop_in_run = FALSE
    /\ timeout = 0
    /\ waited = 0
    /\ ret = NoCall
    /\ put = <<>>
    /\ seen = <<>>
    /\ rng_drawn = <<>>
    /\ stdin_lines = 0
    /\ events = <<>>
    /\ key_log = <<>>
    /\ slot1_side = "left"
    /\ ModulesIdle

\* start_listening(): nothing while listening; otherwise the flag is set and
\* a new thread started, which becomes listener_thread
StartListening ==
    /\ pc = "idle"
    /\ ~listening
    /\ Len(threads) < MaxThreads
    /\ listening' = TRUE
    /\ threads' = Append(threads, "test")
    /\ UNCHANGED <<beside_listener, pc, marker_queue, put, join_waited>>

\* start_listening() while listening: the early return
StartListeningAgain ==
    /\ pc = "idle"
    /\ listening
    /\ UNCHANGED vars

\* stop_listening(): the flag is cleared, then listener_thread, if any, is
\* joined
StopListening ==
    /\ pc = "idle"
    /\ listening' = FALSE
    /\ pc' = IF threads = <<>> THEN "idle" ELSE "joining"
    /\ join_waited' = 0
    /\ UNCHANGED <<beside_listener, threads, marker_queue, put>>

\* a join that gives up without waiting
JoinReturnsAtOnce ==
    /\ pc = "joining"
    /\ pc' = "idle"
    /\ UNCHANGED <<beside_listener, listening, threads, marker_queue, put,
                   join_waited>>

\* join(timeout=1.0) returns: the thread has finished or the time is up
JoinReturns ==
    /\ pc = "joining"
    /\ threads[Len(threads)] = "dead" \/ join_waited >= JoinIntervals
    /\ pc' = "idle"
    /\ UNCHANGED <<beside_listener, listening, threads, marker_queue, put,
                   join_waited>>

\* _listen_loop, the while condition: the thread goes on or returns
ThreadTests(i) ==
    /\ threads[i] = "test"
    /\ threads' = [threads EXCEPT ![i] = IF listening THEN "pulling"
                                                       ELSE "dead"]
    /\ UNCHANGED <<beside_listener, listening, pc, marker_queue, put,
                   join_waited>>

\* _listen_loop, pull_sample returned a marker: it is put in the queue
ThreadPuts(i, m) ==
    /\ threads[i] = "pulling"
    /\ ~test_mode
    /\ Len(put) < MaxPut
    /\ marker_queue' = Append(marker_queue, m)
    /\ put' = Append(put, m)
    /\ threads' = [threads EXCEPT ![i] = "test"]
    /\ UNCHANGED <<beside_listener, listening, pc, join_waited>>

\* 0.1 s pass: every pull and sleep under way ends, and a waiting join has
\* waited one interval more
Interval ==
    /\ \A i \in DOMAIN threads : threads[i] # "test"
    /\ Alive # {} \/ (pc = "joining" /\ join_waited < JoinIntervals)
    /\ threads' = [i \in DOMAIN threads |->
                     IF threads[i] = "pulling" THEN "test" ELSE threads[i]]
    /\ join_waited' = IF pc = "joining" /\ join_waited < JoinIntervals
                        THEN join_waited + 1
                        ELSE join_waited
    /\ UNCHANGED <<beside_listener, listening, pc, marker_queue, put>>

NextListener ==
    \/ StartListening
    \/ StartListeningAgain
    \/ StopListening
    \/ JoinReturns
    \/ \E i \in DOMAIN threads : ThreadTests(i)
    \/ \E i \in DOMAIN threads, m \in Markers : ThreadPuts(i, m)
    \/ Interval

SpecListener == InitListener /\ [][NextListener]_vars

\* ------------------------------------------------------------- properties

\* the configurations the specification calls valid
ValidConfig == min_trials >= 1 /\ jitter >= 0

\* the good option at the start of trial k (1-based): the snapshots of the
\* recorded trials, then the live value, which belongs to the trial in
\* progress or to the next one (while pc = "update" the live value is still
\* that of the trial just recorded)
GoodAtTrial ==
    [i \in 1..Len(trial_data) |-> trial_data[i].current_good]
        \o (IF pc = "update" THEN <<>> ELSE <<current_good>>)

\* the trials whose contingency update flipped the good option
ReversalAfter == { i \in 1..(Len(GoodAtTrial) - 1) :
                       GoodAtTrial[i + 1] # GoodAtTrial[i] }

\* the number of trials of the contingency block that ends with trial j
BlockLength(j) ==
    LET earlier == { i \in ReversalAfter : i < j }
        start == IF earlier = {} THEN 0
                 ELSE CHOOSE i \in earlier : \A k \in earlier : k <= i
    IN  j - start

\* C1: with min_trials_same_contingency >= 1 and contingency_jitter >= 0,
\* 0 <= trial_in_contingency < contingency_trials holds at every trial
\* boundary (after __init__, before and after every run_trial) and for the
\* snapshot stored in every trial record.
C1_CounterBelowLength ==
    ValidConfig =>
        /\ 0 <= trial_in_contingency
        /\ trial_in_contingency < contingency_trials
        /\ \A i \in DOMAIN trial_data :
              /\ 0 <= trial_data[i].trial_in_contingency
              /\ trial_data[i].trial_in_contingency
                     < trial_data[i].contingency_trials

\* a valid run at a trial boundary whose second trial started at counter 1
\* and whose update reset the counter
C1_Witness ==
    /\ ValidConfig
    /\ pc = "boundary"
    /\ Len(trial_data) = 2
    /\ trial_data[2].trial_in_contingency = 1
    /\ trial_in_contingency = 0

\* C2: current_good changes between two trial boundaries if and only if
\* the incremented trial_in_contingency reached contingency_trials in the
\* contingency update in between; it then becomes 3 - current_good, and the
\* same step resets trial_in_contingency to 0 and redraws contingency_trials.
C2_FlipIffCounterReachedLength ==
    [][ /\ (current_good' # current_good)
            <=> (pc = "update" /\ pc' = "boundary"
                 /\ trial_in_contingency + 1 >= contingency_trials)
        /\ (current_good' # current_good) =>
              /\ current_good' = 3 - current_good
              /\ current_good' \in {1, 2}
              /\ trial_in_contingency' = 0
              /\ contingency_trials' \in min_trials..(min_trials + jitter)
        /\ (pc = "update" /\ pc' = "boundary"
               /\ current_good' = current_good) =>
              /\ trial_in_contingency' = trial_in_contingency + 1
              /\ contingency_trials' = contingency_trials ]_vars

\* a trial boundary right after a flip
C2_Witness ==
    /\ pc = "boundary"
    /\ Len(trial_data) >= 1
    /\ current_good # trial_data[Len(trial_data)].current_good
    /\ trial_in_contingency = 0

\* C3: every value contingency_trials ever holds is in
\* [min_trials, min_trials + jitter], and for a valid configuration so is
\* the number of trials before the first reversal and between reversals.
C3_LengthInRange ==
    /\ contingency_trials \in min_trials..(min_trials + jitter)
    /\ \A i \in DOMAIN trial_data :
          trial_data[i].contingency_trials \in min_trials..(min_trials + jitter)
    /\ ValidConfig =>
          \A j \in ReversalAfter :
              BlockLength(j) \in min_trials..(min_trials + jitter)

\* both ends of the range in one run: the first block had the least length
\* and the redraw gave the greatest one, which the second block then ran
C3_Witness ==
    /\ ValidConfig
    /\ jitter >= 1
    /\ pc = "boundary"
    /\ 1 \in ReversalAfter
    /\ BlockLength(1) = min_trials
    /\ contingency_trials = min_trials + jitter
    /\ trial_in_contingency = min_trials + jitter - 1

\* the contingency snapshot of a record
SnapshotOf(r) == <<r.current_good, r.trial_in_contingency, r.contingency_trials>>

\* n is one contingency step after the snapshot of record r: the counter
\* incremented once and the reversal test made once
OneStepAfter(r, n) ==
    IF r.trial_in_contingency + 1 >= r.contingency_trials
      THEN n[1] = 3 - r.current_good /\ n[2] = 0
      ELSE n = <<r.current_good, r.trial_in_contingency + 1,
                 r.contingency_trials>>

\* C4: every trial that appends a record advances the contingency state by
\* exactly one step, whether it had a response or timed out: the state left
\* by a recorded trial (the next record's snapshot, or the live state) is one
\* step after that record's snapshot; so a run of timed-out trials reverses
\* after exactly contingency_trials trials.
C4_OneStepPerRecordedTrial ==
    /\ \A i \in 1..(Len(trial_data) - 1) :
          OneStepAfter(trial_data[i], SnapshotOf(trial_data[i + 1]))
    /\ Len(trial_data) >= 1 =>
          IF pc = "update"
            THEN contingency = SnapshotOf(trial_data[Len(trial_data)])
            ELSE OneStepAfter(trial_data[Len(trial_data)], contingency)

\* two trials, both timed out, in a valid run whose length was 2: the good
\* option reversed after exactly those two trials
C4_Witness ==
    /\ ValidConfig
    /\ pc = "boundary"
    /\ Len(trial_data) = 2
    /\ \A i \in 1..2 : trial_data[i].choice = "None"
    /\ trial_data[1].contingency_trials = 2
    /\ trial_data[2].current_good = trial_data[1].current_good
    /\ current_good = 3 - trial_data[2].current_good

\* C5: in every record of trial_data choice is 1, 2 or None (never 'escape'
\* or 'stim_stopped'); reward is None iff correct is None iff choice is
\* None; a record with a choice has boolean correct and reward.
C5_OutcomeIffChoice ==
    \A i \in DOMAIN trial_data :
        LET r == trial_data[i] IN
        /\ r.choice \in {"1", "2", "None"}
        /\ (r.reward = "None") <=> (r.choice = "None")
        /\ (r.correct = "None") <=> (r.choice = "None")
        /\ r.choice \in {"1", "2"} =>
              /\ r.correct \in {"True", "False"}
              /\ r.reward \in {"True", "False"}

\* a timed-out trial followed by a rewarded wrong choice
C5_Witness ==
    /\ Len(trial_data) = 2
    /\ trial_data[1].choice = "None"
    /\ trial_data[2].choice \in {"1", "2"}
    /\ trial_data[2].correct = "False"
    /\ trial_data[2].reward = "True"

\* C6: in every record with a response, correct equals
\* (choice == current_good) for the current_good stored in the same record
\* (the good option at trial start), also on the trial whose update reverses.
C6_CorrectAgainstSnapshot ==
    \A i \in DOMAIN trial_data :
        LET r == trial_data[i] IN
        r.choice \in {"1", "2"} =>
            (r.correct = "True")
                <=> \/ r.choice = "1" /\ r.current_good = 1
                    \/ r.choice = "2" /\ r.current_good = 2

\* a correct choice on the trial whose update reversed the contingency: the
\* live good option is no longer the one the record was judged against
C6_Witness ==
    /\ pc = "boundary"
    /\ Len(trial_data) >= 1
    /\ LET r == trial_data[Len(trial_data)] IN
         /\ r.choice = "2"
         /\ r.correct = "True"
         /\ current_good = 1

\* the phases of a trial with a response and of a timed-out trial
PhasesWithResponse == <<"fixation", "choice", "highlight", "outcome", "delay",
                        "feedback", "iti", "append", "update">>

PhasesNoResponse == <<"fixation", "choice", "delay", "feedback", "iti",
                      "append", "update">>

IsPrefix(p, q) == Len(p) <= Len(q) /\ \A i \in 1..Len(p) : p[i] = q[i]

\* C7: the phases of a trial occur in the order fixation, choice window,
\* highlight, outcome determination, delay, feedback, inter-trial interval,
\* record append, contingency update; highlight and the reward draw occur iff
\* a response (1 or 2) was given; a timed-out trial still goes through delay,
\* feedback and ITI and is recorded.
C7_PhaseOrder ==
    /\ \/ IsPrefix(phases, PhasesWithResponse)
       \/ IsPrefix(phases, PhasesNoResponse)
    /\ Len(phases) >= 3 =>
          /\ choice \in {"1", "2"} <=> IsPrefix(phases, PhasesWithResponse)
          /\ choice = "None" <=> IsPrefix(phases, PhasesNoResponse)
    /\ pc \in {"delay", "feedback", "iti", "append", "update"} =>
          (reward # "None") <=> (choice \in {"1", "2"})
    /\ (pc = "boundary" /\ current_trial >= 1) =>
          /\ Len(trial_data) = current_trial
          /\ phases = IF trial_data[current_trial].choice = "None"
                        THEN PhasesNoResponse
                        ELSE PhasesWithResponse

\* a timed-out trial that went through all of its phases and was recorded
C7_Witness ==
    /\ pc = "boundary"
    /\ Len(trial_data) = 1
    /\ trial_data[1].choice = "None"
    /\ phases = PhasesNoResponse

\* the steps of a trial in progress
TrialStep ==
    \/ ShowFixation
    \/ \E ev \in {"none", "1", "2", "escape"} : GetResponsePoll(ev)
    \/ GetResponseTimeout
    \/ ShowHighlight
    \/ \E u \in Units : DetermineOutcome(u)
    \/ WaitDelay
    \/ ShowFeedback
    \/ InterTrialInterval
    \/ AppendRecord
    \/ UpdateContingency

\* C8: elapsed time is compared with the run duration only at the start of
\* run_trial: no trial starts at a boundary where elapsed >= run duration; a
\* trial that has started can always go on, deadline reached or not, and
\* leaves its phases only by its contingency update (after its record was
\* appended), by the abort key, by an external stop or by an exception
\* raised in a phase.
C8_DeadlineOnlyAtBoundary ==
    /\ [](pc \in InTrial => ENABLED TrialStep)
    /\ [][ /\ (pc = "boundary" /\ pc' = "fixation") => elapsed < max_duration
           /\ (pc \in InTrial /\ pc' \notin InTrial) =>
                 \/ /\ pc = "update"
                    /\ pc' = "boundary"
                    /\ Len(trial_data) = current_trial + 1
                 \/ choice' \in {"escape", "stim_stopped"}
                 \/ end_cause' = "error" ]_vars

\* a record appended after the deadline passed during its trial
C8_Witness ==
    /\ pc = "update"
    /\ max_duration > 0
    /\ elapsed >= max_duration
    /\ Len(trial_data) = current_trial + 1
    /\ trial_data[Len(trial_data)].trial_num = current_trial

\* C9: with a run duration of 0 the run loop completes zero trials: no trial
\* ever starts, trial_data stays empty, the contingency state never changes,
\* and the loop is left by the elapsed-time check.
C9_ZeroDurationZeroTrials ==
    /\ [](max_duration = 0 =>
             /\ trial_data = <<>>
             /\ current_trial = 0
             /\ trial_in_contingency = 0
             /\ pc \notin InTrial
             /\ pc = "loop_exit" => end_cause = "elapsed")
    /\ [][max_duration = 0 =>
             UNCHANGED <<contingency, trial_data, current_trial>>]_vars

\* the run loop left by the first run_trial call of a zero-duration run
C9_Witness ==
    /\ max_duration = 0
    /\ pc = "loop_exit"
    /\ end_cause = "elapsed"
    /\ run_started

\* whether marker code m is in queue q
InQueue(m, q) == \E i \in DOMAIN q : q[i] = m

\* C10: when a poll of the choice window finds a stop marker, the window
\* ends at once with the result 'stim_stopped' (not None), task_should_stop
\* is set, run_trial returns False without appending a record, and no trial
\* starts afterwards.
C10_StopEndsWindowAndRun ==
    /\ [](task_should_stop =>
             /\ pc \in {"loop_exit", "exited"}
             /\ choice = "stim_stopped"
             /\ end_cause = "stim_stopped"
             /\ Len(trial_data) = current_trial)
    /\ [][ /\ ( /\ pc \in {"choice", "choice_loop"}
                /\ InQueue(STIMULATION_STOP, marker_queue)
                /\ Len(marker_queue') < Len(marker_queue) ) =>
                    /\ task_should_stop'
                    /\ choice' = "stim_stopped"
                    /\ pc' = "loop_exit"
                    /\ UNCHANGED <<trial_data, contingency, current_trial>>
           /\ (task_should_stop' /\ ~task_should_stop) =>
                    /\ pc \in {"choice", "choice_loop"}
                    /\ InQueue(STIMULATION_STOP, marker_queue)
           /\ task_should_stop => (task_should_stop' /\ pc' \notin InTrial)
         ]_vars

\* a run stopped by a marker in the choice window of its second trial
C10_Witness ==
    /\ task_should_stop
    /\ pc = "loop_exit"
    /\ choice = "stim_stopped"
    /\ Len(trial_data) = 1
    /\ trial_info.trial_num = 1

\* the main thread leaves the first pass of the choice window other than by
\* an exception
LeavesFirstPass == pc = "choice" /\ pc' # "choice" /\ end_cause' # "error"

\* C11 as stated: a stop marker the listener queued while the trial loop was
\* running is never lost; a later poll dequeues it and the run ends with
\* cause external stop (in a run of positive duration that no exception
\* ended).
C11_StopMarkerEndsRun ==
    ( /\ stop_in_run
      /\ pc \in {"loop_exit", "exited"}
      /\ max_duration > 0
      /\ end_cause # "error" ) => end_cause = "stim_stopped"

\* C11 as amended: every trial that reaches its choice window polls the
\* queue before it reads a key or times out; a stop marker queued during
\* the trial loop stays queued until a poll dequeues it, and that poll ends
\* the run with cause external stop; the marker stays unread, and the run
\* ends with another cause, only when the elapsed-time check, the abort key
\* or an exception ends the run before the next poll.
C11_StopMarkerKeptUntilPolled ==
    /\ [](stop_in_run =>
             \/ InQueue(STIMULATION_STOP, marker_queue)
             \/ task_should_stop /\ end_cause = "stim_stopped")
    /\ []((stop_in_run /\ pc \in {"loop_exit", "exited"}
              /\ end_cause # "stim_stopped") =>
                 /\ end_cause \in {"elapsed", "escape", "error"}
                 /\ InQueue(STIMULATION_STOP, marker_queue)
                 /\ ~task_should_stop)
    /\ [][ /\ (LeavesFirstPass /\ InQueue(STIMULATION_STOP, marker_queue)) =>
                 /\ task_should_stop'
                 /\ pc' = "loop_exit"
                 /\ end_cause' = "stim_stopped"
           /\ (LeavesFirstPass /\ ~InQueue(STIMULATION_STOP, marker_queue)) =>
                 marker_queue' = <<>>
           /\ ( /\ InTrialLoop
                /\ InQueue(STIMULATION_STOP, marker_queue)
                /\ Len(marker_queue') < Len(marker_queue) ) =>
                    /\ pc \in {"choice", "choice_loop"}
                    /\ task_should_stop'
         ]_vars

\* a stop marker that arrived during the trial loop, after the first trial
\* was recorded, and that a poll of the second trial took: the run is over,
\* stopped from outside
C11_Witness ==
    /\ stop_in_run
    /\ task_should_stop
    /\ pc = "exited"
    /\ end_cause = "stim_stopped"
    /\ Len(trial_data) = 1
    /\ "Stimulation stopped - ending task" \in log

\* a pass of a wait outside test mode that took a marker from the queue
WaitTookMarker ==
    /\ pc = "waiting"
    /\ ~test_mode
    /\ Len(marker_queue') < Len(marker_queue)

C13_TimeoutEndsWait ==
    (pc = "waiting" /\ ~test_mode /\ timeout > 0) => waited <= timeout + 1

\* a step in which the idle client made a check_for_stimulation_stop call
CheckStep ==
    pc = "idle" /\ pc' = "idle" /\ put' = put /\ stdin_lines' = stdin_lines

C15_AbortFlushesRecords ==
    /\ [](end_cause = "escape" =>
             /\ pc = "exited"
             /\ choice = "escape"
             /\ saved = trial_data
             /\ Len(trial_data) = current_trial
             /\ \A i \in DOMAIN trial_data :
                   trial_data[i].trial_num # trial_info.trial_num)
    /\ [][ /\ (choice' = "escape" /\ choice # "escape") =>
                 /\ pc \in {"choice", "choice_loop"}
                 /\ pc' = "exited"
                 /\ trial_data' = trial_data
                 /\ saved' = trial_data
           /\ end_cause = "escape" =>
                 UNCHANGED <<trial_data, current_trial, contingency, saved, pc>>
         ]_vars

\* bandit_pygame.py aborted in the choice window of its second trial: the
\* file holds the one record of the first
C15_Witness ==
    /\ variant = "pygame"
    /\ pc = "exited"
    /\ end_cause = "escape"
    /\ trial_info.trial_num = 1
    /\ Len(trial_data) = 1
    /\ saved = trial_data

\* an exception in a trial has been reported on the console
RaisedInTrial == log \cap {"Error during trial", "Traceback"} # {}

\* a step in which a phase of the running trial raised: the trial is left
\* from one of its phases, not by the abort key and not by a stop marker
RaisesStep ==
    /\ pc \in BlockingPhases
    /\ pc' \in {"boundary", "loop_exit", "exited"}
    /\ choice' \notin {"escape", "stim_stopped"}

\* the program goes on after an exception in a trial: bandit_main.py with
\* stimulation disabled
RetriesAfterError == variant = "main" /\ ~stimulation_enabled

\* C16 as stated: in every task variant an exception raised in a phase of a
\* trial aborts the run: once one was raised no trial is running any more,
\* and when the process has exited the records are in the file.
C16_ExceptionAbortsRun ==
    RaisedInTrial =>
        /\ pc \notin InTrial
        /\ pc = "exited" => saved = trial_data

\* C16 as amended: an exception raised in a phase of a trial changes no
\* record (nor the trial counter, nor the contingency state); in
\* bandit_main_v13.py, in bandit_pygame.py and, with stimulation enabled, in
\* bandit_main.py it ends the run, no further trial starts, and the records
\* are flushed by save_data; in bandit_main.py with stimulation disabled it
\* is printed and the loop calls run_trial again, and the records are
\* flushed when the run ends.
C16_ExceptionAbortsOrRetries ==
    /\ [](pc = "exited" => saved = trial_data)
    /\ [](end_cause = "error" => pc \in {"loop_exit", "exited"})
    /\ [][ /\ RaisesStep =>
                 /\ UNCHANGED <<trial_data, current_trial, contingency>>
                 /\ RaisedInTrial'
                 /\ IF RetriesAfterError
                      THEN pc' = "boundary" /\ end_cause' = end_cause
                      ELSE pc' # "boundary" /\ end_cause' = "error"
           /\ end_cause = "error" =>
                 UNCHANGED <<trial_data, current_trial, contingency>>
         ]_vars

\* bandit_main.py without stimulation: an exception was printed, the run
\* went on, recorded a trial and ended at its deadline, records in the file
C16_Witness ==
    /\ RetriesAfterError
    /\ RaisedInTrial
    /\ pc = "exited"
    /\ end_cause = "elapsed"
    /\ Len(trial_data) >= 1
    /\ saved = trial_data

\* C17: a configuration with min_trials_same_contingency < 1 or
\* contingency_jitter < 0 fails when the contingency state is initialised,
\* before any trial: under such a configuration no trial ever starts and
\* no record exists.
C17_InvalidConfigRunsNoTrial ==
    ~ValidConfig =>
        /\ pc \notin InTrial
        /\ current_trial = 0
        /\ trial_data = <<>>

\* the cause of the end of a run of bandit_main_v13.py as the console shows
\* it: the stop message of run_trial, an error line or a traceback, the
\* completion message of run() alone, or none of these (the process left
\* from inside run_trial)
ReportedCause ==
    IF "Stimulation stopped - ending task" \in log THEN "stim_stopped"
    ELSE IF log \cap {"Error during trial", "Traceback"} # {} THEN "error"
    ELSE IF "Run complete!" \in log THEN "elapsed"
    ELSE "escape"

\* C18 as stated: every run that has entered its trial loop ends by exactly
\* one of three causes: elapsed time >= run duration, user abort, external
\* stop marker.
C18_ThreeCauses ==
    (pc = "exited" /\ run_started) =>
        end_cause \in {"elapsed", "escape", "stim_stopped"}

\* C18 as amended: every run ends by exactly one of four causes - elapsed
\* time >= run duration, user abort, external stop marker, or an error (an
\* exception in a trial or before the trial loop) - and the cause can be
\* told from the console output and the state at the end: what the console
\* reports is the cause, the stop flag is set exactly for an external stop,
\* a run reported as elapsed has reached its duration, and an error is
\* never reported as one of the other three.
C18_CauseToldApart ==
    pc = "exited" =>
        /\ end_cause \in {"elapsed", "escape", "stim_stopped", "error"}
        /\ ReportedCause = end_cause
        /\ task_should_stop <=> end_cause = "stim_stopped"
        /\ end_cause = "elapsed" => run_started /\ elapsed >= max_duration
        /\ end_cause # "error" => ~RaisedInTrial
        /\ end_cause = "escape" => choice = "escape"

\* a run of positive duration that recorded a trial and was then ended by
\* an exception: the error line precedes the completion message
C18_Witness ==
    /\ pc = "exited"
    /\ end_cause = "error"
    /\ max_duration > 0
    /\ Len(trial_data) >= 1
    /\ log = {"Error during trial", "Run complete!"}

\* C19: trial_data is append-only (a step either leaves it alone or adds
\* one record at the end), at every trial boundary
\* len(trial_data) = current_trial, and the i-th record (from 0) has
\* trial_num = i, also in a run in which a trial attempt raised and
\* run_trial was called again.
C19_AppendOnlyNumbered ==
    /\ [](\A i \in DOMAIN trial_data : trial_data[i].trial_num = i - 1)
    /\ [](pc = "boundary" => Len(trial_data) = current_trial)
    /\ [][ \/ trial_data' = trial_data
           \/ /\ Len(trial_data') = Len(trial_data) + 1
              /\ SubSeq(trial_data', 1, Len(trial_data)) = trial_data
         ]_vars

\* bandit_main.py without stimulation at a trial boundary, two records
\* numbered 0 and 1, in a run that printed an exception of a trial attempt
C19_Witness ==
    /\ RetriesAfterError
    /\ RaisedInTrial
    /\ pc = "boundary"
    /\ Len(trial_data) = 2
    /\ trial_data[1].trial_num = 0
    /\ trial_data[2].trial_num = 1

\* the updates, among the first n made, that flipped the good option
FlipsAmong(n) == { i \in 1..n : flip_log[i] }

\* C20: the reversal count shown at run end (shown when some record has a
\* response) is the number of indices i >= 1 whose record differs in
\* current_good from record i-1, and equals the number of flips made by
\* the contingency updates of all recorded trials but the last.
C20_ReversalsBetweenRecords ==
    (pc = "exited" /\ "Run complete!" \in log) =>
        /\ Len(flip_log) = Len(trial_data)
        /\ reversals = -1 <=>
               \A i \in DOMAIN trial_data : trial_data[i].choice = "None"
        /\ reversals # -1 =>
               /\ reversals = Cardinality(
                      { i \in 1..(Len(trial_data) - 1) :
                            trial_data[i + 1].current_good
                                # trial_data[i].current_good })
               /\ reversals = Cardinality(FlipsAmong(Len(trial_data) - 1))

\* two recorded trials whose updates both flipped, one response: the
\* summary shows one reversal, the flip of the last trial is not in it
C20_Witness ==
    /\ pc = "exited"
    /\ "Run complete!" \in log
    /\ flip_log = <<TRUE, TRUE>>
    /\ Len(trial_data) = 2
    /\ reversals = 1

\* the three ways out of the trial loop the specification names
ThreeCauses == {"elapsed", "escape", "stim_stopped"}

\* C21 as stated: whenever a run ends, by any of the three termination
\* causes and whatever the number of responses, the run-level summary (trial
\* count, response count, percentage correct, percentage rewarded, reversal
\* count) has been computed when the process is over.
C21_SummaryOnEveryEnd ==
    (pc = "exited" /\ run_started /\ end_cause \in ThreeCauses) =>
        /\ summary # NoSummary
        /\ reversals # -1

\* C21 as amended: when the trial loop of bandit_main_v13.py is left by the
\* elapsed-time check, an external stop or an exception in a trial, and at
\* least one record has a response, show_run_complete computes the summary
\* from the records as they are at the end (trial count, response count,
\* percentage correct and rewarded among the responses, reversal count)
\* before cleanup; with no response among the records no figure is
\* computed, and on the abort key the process exits from run_trial without
\* any summary.
C21_SummaryAfterLoopWithResponses ==
    /\ [](pc # "exited" => summary = NoSummary /\ reversals = -1)
    /\ [](pc = "exited" =>
             LET resp == { i \in DOMAIN trial_data :
                               trial_data[i].choice \in {"1", "2"} }
                 shown == /\ "Run complete!" \in log
                          /\ resp # {}
             IN  /\ "Run complete!" \in log <=>
                        /\ run_started
                        /\ end_cause \in {"elapsed", "stim_stopped", "error"}
                 /\ shown <=> summary # NoSummary
                 /\ shown <=> reversals # -1
                 /\ shown =>
                       /\ summary.n_trials = Len(trial_data)
                       /\ summary.n_responses = Cardinality(resp)
                       /\ summary.correct_pct * Cardinality(resp)
                              <= 100 * Cardinality({ i \in resp :
                                          trial_data[i].correct = "True" })
                       /\ 100 * Cardinality({ i \in resp :
                                          trial_data[i].correct = "True" })
                              < (summary.correct_pct + 1) * Cardinality(resp)
                       /\ summary.reward_pct * Cardinality(resp)
                              <= 100 * Cardinality({ i \in resp :
                                          trial_data[i].reward = "True" })
                       /\ 100 * Cardinality({ i \in resp :
                                          trial_data[i].reward = "True" })
                              < (summary.reward_pct + 1) * Cardinality(resp))
    /\ [][(summary' # summary \/ reversals' # reversals) =>
             /\ pc = "loop_exit"
             /\ pc' = "exited"
             /\ trial_data' = trial_data
         ]_vars

\* a run stopped from outside in its second trial, after a first trial with
\* a correct, unrewarded response: one trial, one response, 100 and 0
C21_Witness ==
    /\ pc = "exited"
    /\ end_cause = "stim_stopped"
    /\ summary = [n_trials |-> 1, n_responses |-> 1, correct_pct |-> 100,
                  reward_pct |-> 0]
    /\ reversals = 0

\* the (current_good, contingency_trials) pair each trial of the run
\* started with, and the pair the next trial would start with
SchedulePairs ==
    [i \in 1..Len(trial_data) |->
        <<trial_data[i].current_good, trial_data[i].contingency_trials>>]
        \o << <<current_good, contingency_trials>> >>

\* the contingency state and the stream position after one more trial
\* without a response, from the state st, on the stream rng_drawn
NoResponseTrial(st) ==
    IF ReversalDue(st.count + 1, st.length)
      THEN [good |-> Reversed(st.good), count |-> 0,
            length |-> min_trials + RandInt(rng_drawn[st.pos + 3], 0, jitter + 1),
            pos |-> st.pos + 3]
      ELSE [good |-> st.good, count |-> st.count + 1, length |-> st.length,
            pos |-> st.pos + 2]

\* the state in which trial k (from 1) starts in the run on the same seed
\* in which no trial gets a response
RECURSIVE NoResponseRun(_)
NoResponseRun(k) ==
    IF k = 1
      THEN [good |-> RandInt(rng_drawn[1], 1, 3), count |-> 0,
            length |-> min_trials + RandInt(rng_drawn[2], 0, jitter + 1),
            pos |-> 3]
      ELSE NoResponseTrial(NoResponseRun(k - 1))

\* C22: given the same seed and configuration, two runs produce the same
\* trial-by-trial sequence of (current_good, contingency_trials) pairs
\* whatever the participant does: the pairs of a run are those of the run
\* on the same seed in which no trial gets a response.
C22_ScheduleIndependentOfResponses ==
    \A k \in DOMAIN SchedulePairs :
        SchedulePairs[k] = <<NoResponseRun(k).good, NoResponseRun(k).length>>

\* whether q is p with some markers taken from its head
IsSuffix(q, p) ==
    Len(q) <= Len(p) /\ q = SubSeq(p, Len(p) - Len(q) + 1, Len(p))

\* C23: the marker queue has a single producer and a single consumer: only
\* the running listener thread puts markers into it, always at the tail;
\* only the client thread, inside wait_for_stimulation_start or
\* check_for_stimulation_stop, removes markers, always from the head; and
\* under every interleaving of the two the markers dequeued so far followed
\* by the markers still queued are the markers that arrived, in arrival
\* order: none duplicated, none lost, none out of order.
C23_SingleProducerSingleConsumer ==
    /\ [](seen \o marker_queue = put)
    /\ [][ /\ (put' # put \/ Len(marker_queue') > Len(marker_queue)) =>
                 /\ Producing
                 /\ \E m \in WireCodes :
                       /\ put' = Append(put, m)
                       /\ marker_queue' = Append(marker_queue, m)
                 /\ UNCHANGED <<seen, pc, ret, waited>>
           /\ (seen' # seen \/ Len(marker_queue') < Len(marker_queue)) =>
                 /\ \/ pc = "waiting" /\ ~test_mode
                    \/ pc = "checking"
                    \/ pc = "idle" /\ pc' = "idle" /\ ret'.call = "check"
                 /\ put' = put
                 /\ IsSuffix(marker_queue', marker_queue)
                 /\ seen' = seen \o SubSeq(marker_queue, 1,
                                   Len(marker_queue) - Len(marker_queue'))
         ]_vars

\* a check in progress that has dropped one marker, after the wait before
\* it had taken the start marker, with a third marker still queued
C23_Witness ==
    /\ pc = "checking"
    /\ put = <<STIMULATION_START, RAMP_DOWN_START, STIMULATION_STOP>>
    /\ seen = <<STIMULATION_START, RAMP_DOWN_START>>
    /\ marker_queue = <<STIMULATION_STOP>>
    /\ timeout = 1

\* a run has been ended, or is being ended, by an external stop
StoppedFromOutside ==
    \/ task_should_stop
    \/ choice = "stim_stopped"
    \/ end_cause = "stim_stopped"

\* C24: a run ends by external stop only when a marker listener is wired in
\* and running on a connected inlet: with stimulation disabled, with a
\* failed LSL connection or in test mode the queue stays empty while the
\* task runs and no run ever ends by external stop.
C24_StopOnlyWithListener ==
    /\ StoppedFromOutside =>
          /\ stimulation_enabled
          /\ ~test_mode
          /\ pc # "exited" => listening
    /\ (pc # "exited" /\ ~Producing) =>
          /\ marker_queue = <<>>
          /\ ~stop_in_run
          /\ ~StoppedFromOutside
    /\ (~stimulation_enabled \/ test_mode) => marker_queue = <<>>

\* a baseline run with a running listener, stopped from outside in its
\* second trial
C24_Witness ==
    /\ stim_condition = "baseline"
    /\ Producing
    /\ pc = "loop_exit"
    /\ task_should_stop
    /\ end_cause = "stim_stopped"
    /\ Len(trial_data) = 1

\* C25 as stated: in test mode wait_for_stimulation_start returns True at
\* once, whatever else happens: a wait in test mode can always return.
C25_TestModeReturnsAtOnce ==
    (pc = "waiting" /\ test_mode) => ENABLED WaitTestMode

\* C25 as amended: in test mode wait_for_stimulation_start neither needs
\* nor touches the marker queue and needs no listener: no marker is ever
\* produced or consumed, the timeout is not looked at and False is never
\* returned; it returns True as soon as, and only when, a line (ENTER) can
\* be read from the console.
C25_TestModeReturnsOnEnter ==
    /\ [](test_mode =>
             /\ marker_queue = <<>> /\ put = <<>> /\ seen = <<>>
             /\ waited = 0
             /\ ret # [call |-> "wait", value |-> "False"])
    /\ []((pc = "waiting" /\ test_mode) =>
             (ENABLED WaitTestMode <=> stdin_lines > 0))
    /\ [][(pc = "waiting" /\ test_mode /\ pc' # "waiting") =>
             /\ stdin_lines > 0
             /\ stdin_lines' = stdin_lines - 1
             /\ pc' = "idle"
             /\ ret' = [call |-> "wait", value |-> "True"]
         ]_vars

\* a wait with a timeout that returned True in test mode after ENTER
C25_Witness ==
    /\ test_mode
    /\ pc = "idle"
    /\ timeout = 1
    /\ stdin_lines = 0
    /\ ret = [call |-> "wait", value |-> "True"]

\* the threshold the reward draw of record r is compared with
ThresholdOf(r) ==
    IF \/ r.choice = "1" /\ r.current_good = 1
       \/ r.choice = "2" /\ r.current_good = 2
      THEN win_fraction
      ELSE Certain - win_fraction

\* C26: a trial with a response makes exactly one reward draw (between the
\* slot-position draw and the wait-time draw) and is rewarded iff that draw
\* is below win_fraction when the choice equals current_good and below
\* 1 - win_fraction otherwise; a trial without a response makes none; with
\* win_fraction = 1 a correct choice is always rewarded and an incorrect one
\* never, with win_fraction = 0 the reverse.
C26_OneRewardDrawAgainstThreshold ==
    /\ [](\A i \in DOMAIN trial_data :
             LET r == trial_data[i] IN
             r.choice \in {"1", "2"} =>
                 /\ win_fraction = Certain => (r.reward = r.correct)
                 /\ win_fraction = 0 => (r.reward # r.correct))
    /\ [][trial_data' # trial_data =>
             LET r == trial_data'[Len(trial_data')]
                 new == SubSeq(rng_drawn', Len(rng_drawn) + 1, Len(rng_drawn'))
                 redrawn == IF current_good' # current_good THEN 1 ELSE 0
             IN  IF r.choice \in {"1", "2"}
                   THEN /\ Len(new) = 3 + redrawn
                        /\ r.reward \in {"True", "False"}
                        /\ r.reward = "True" <=> new[2] < ThresholdOf(r)
                   ELSE /\ Len(new) = 2 + redrawn
                        /\ r.reward = "None"
         ]_vars

\* with win_fraction = 0 an incorrect choice was rewarded although its draw
\* was the highest there is
C26_Witness ==
    /\ win_fraction = 0
    /\ Len(trial_data) = 1
    /\ trial_data[1].correct = "False"
    /\ trial_data[1].reward = "True"
    /\ rng_drawn[5] = 3

\* get_response is running
InWindow == pc \in {"choice", "choice_loop"}

\* the positions of the recognised keys among the key events log
RecognisedAt(klog) == { i \in DOMAIN klog : klog[i] \in Recognised }

\* the result of the earliest recognised key of klog
FirstKeyResult(klog) ==
    KeyResult(klog[CHOOSE i \in RecognisedAt(klog) :
                     \A j \in RecognisedAt(klog) : i <= j])

\* the key events the passes of the window have taken so far
Polled == SubSeq(key_log, 1, Len(key_log) - Len(events))

\* C27 as stated: when the window returns, the first recognised key event
\* that has arrived determines the result, and the result is no-response
\* (or the stop of C10) only when none has arrived; later key events do not
\* change the result.
C27_FirstKeyDeterminesResult ==
    [][ /\ (InWindow /\ ~InWindow')
            => IF RecognisedAt(key_log) # {}
                 THEN choice' = FirstKeyResult(key_log)
                 ELSE choice' \in {"None", "stim_stopped"}
        /\ ~InWindow => choice' = choice ]_vars

\* C27, amended: a key result is always that of the first recognised key
\* event in arrival order, and a pass that finds no stop marker and has a
\* recognised key pending returns it; unrecognised keys are dropped and
\* leave the window open; once the window has returned no key event changes
\* the result.  A recognised key no pass has taken does not determine the
\* result: the window returns "stim_stopped" when the pass finds a stop
\* marker first, and None when max_response_time is over, and in both cases
\* the pending events stay in the event queue.
C27_FirstPolledKeyDeterminesResult ==
    [][ /\ (InWindow /\ ~InWindow')
            => \/ /\ RecognisedAt(key_log) # {}
                  /\ choice' = FirstKeyResult(key_log)
                  /\ ~InQueue(STIMULATION_STOP, marker_queue)
                  /\ events' = <<>>
               \/ /\ choice' = "stim_stopped"
                  /\ InQueue(STIMULATION_STOP, marker_queue)
                  /\ RecognisedAt(Polled) = {}
                  /\ events' = events
               \/ /\ choice' = "None"
                  /\ pc = "choice_loop"
                  /\ RecognisedAt(Polled) = {}
                  /\ events' = events
        /\ (InWindow /\ InWindow')
            => /\ choice' = choice
               /\ RecognisedAt(Polled') = {}
        /\ ~InWindow => choice' = choice ]_vars

\* after an unrecognised key, A with option 1 on the right has returned
\* option 2, and the key 1 pressed afterwards has not changed the result
C27_Witness ==
    /\ pc = "highlight"
    /\ slot1_side = "right"
    /\ key_log = <<"x", "a", "1">>
    /\ events = <<"1">>
    /\ choice = "2"
ConnectionFailed ==
    /\ variant = "v13"
    /\ stimulation_enabled
    /\ ~test_mode
    /\ ~listening
    /\ pc # "exited"

\* C29: when the connection to the marker stream failed at initialisation,
\* a non-baseline run does not wait for a marker.
C29_FailedConnectionStartsAtOnce ==
    (ConnectionFailed /\ stim_condition # "baseline") => pc # "wait_start"

\* C30: with stimulation not enabled, the run gets to its trial loop for
\* every stim_condition without waiting for a trigger and without an error.
C30_DisabledStartsWithoutError ==
    (variant = "v13" /\ ~stimulation_enabled /\ ~run_started)
        => (pc # "wait_start" /\ end_cause # "error")
\* C31: a stop marker the listener put before the trial loop of the run
\* began never ends the run: a run that ends by external stop has had a stop
\* marker put while its trial loop was running.
C31_StaleStopNeverEndsRun ==
    end_cause = "stim_stopped" => stop_in_run
\* the result of get_response that ends the trial without a record
EndsTrial == {"escape", "stim_stopped"}

\* C32: a trial ended by an external stop marker or by the abort key leaves
\* trial_data, current_trial, current_good, trial_in_contingency and
\* contingency_trials as they were when the trial started: they are the
\* values of the snapshot run_trial took at its start, and trial_data holds
\* the records of the earlier trials only.
C32_EndedTrialLeavesStateAlone ==
    choice \in EndsTrial =>
        /\ current_trial = trial_info.trial_num
        /\ current_good = trial_info.current_good
        /\ trial_in_contingency = trial_info.trial_in_contingency
        /\ contingency_trials = trial_info.contingency_trials
        /\ Len(trial_data) = trial_info.trial_num
        /\ \A i \in DOMAIN trial_data :
              trial_data[i].trial_num < trial_info.trial_num

\* the second trial of a run was ended by a stop marker after a reversal,
\* and the run is over
C32_Witness ==
    /\ choice = "stim_stopped"
    /\ pc = "exited"
    /\ Len(trial_data) = 1
    /\ current_trial = 1
    /\ current_good # trial_data[1].current_good
\* C33: task_should_stop is a latch.  It is False until the run loop has
\* started; it changes only from False to True, in the pass of a choice
\* window whose stop poll found a stop marker, the pass that returns
\* 'stim_stopped'; and while it is True no phase is shown, no record is
\* appended, the contingency state and the trial counter stay as they are
\* and no trial is in progress.
C33_StopFlagIsLatch ==
    /\ [](~run_started => ~task_should_stop)
    /\ [](task_should_stop <=> choice = "stim_stopped")
    /\ [](task_should_stop => pc \in {"loop_exit", "exited"})
    /\ [][ /\ task_should_stop' # task_should_stop
               => /\ ~task_should_stop
                  /\ pc \in {"choice", "choice_loop"}
                  /\ InQueue(STIMULATION_STOP, marker_queue)
                  /\ choice' = "stim_stopped"
           /\ task_should_stop
               => UNCHANGED <<phases, trial_data, contingency, current_trial,
                              task_should_stop>>
         ]_vars

\* the flag was set in the first choice window and the run has ended with
\* no record
C33_Witness ==
    /\ task_should_stop
    /\ pc = "exited"
    /\ phases = <<"fixation", "choice">>
    /\ trial_data = <<>>
    /\ current_trial = 0
\* the step is a call of the method name on the modules
Called(name) == nic_ret'.call = name

\* C34: start_stimulation with no protocol loaded and load_protocol with a
\* type other than 'active' or 'sham' raise NICError; a call that raises
\* leaves current_protocol and stimulation_active as they were and writes
\* no command; stimulation_active implies a loaded protocol; and
\* stop_stimulation with no active stimulation returns True and writes no
\* command.
C34_NICErrorsLeaveStateAlone ==
    /\ [](stimulation_active => current_protocol # NoProtocol)
    /\ [][ /\ (Called("start_stimulation") /\ current_protocol = NoProtocol)
               => nic_ret'.value = "NICError"
           /\ (Called("load_protocol")
                  /\ nic_ret'.arg \notin {"active", "sham"})
               => nic_ret'.value = "NICError"
           /\ nic_ret'.value = "NICError" => UNCHANGED nic
           /\ (Called("stop_stimulation") /\ ~stimulation_active)
               => nic_ret'.value = "True" /\ UNCHANGED nic
         ]_vars

\* start_stimulation has raised on an interface with nothing loaded
C34_Witness ==
    /\ nic_ret.call = "start_stimulation"
    /\ nic_ret.value = "NICError"
    /\ current_protocol = NoProtocol
    /\ ~stimulation_active
    /\ commands = <<>>

\* the run r has no entry in the counterbalancing or the entry 'baseline'
BaselineRun(r) ==
    r \notin DOMAIN counterbalancing \/ counterbalancing[r] = "baseline"

\* C35: for a run whose condition is 'baseline' prepare_run,
\* start_run_stimulation and stop_run_stimulation return True and leave the
\* interface alone (no command, current_protocol and stimulation_active
\* unchanged); get_run_condition returns 'baseline' for every run number
\* outside 1..8 and for every run while no counterbalancing is set up.
C35_BaselineRunIssuesNothing ==
    /\ [](\A r \in RunNumbers :
            (r \notin 1..8 \/ counterbalancing = NoCounterbalancing)
                => GetRunCondition(r) = "baseline")
    /\ [][ ( /\ \/ Called("prepare_run")
                 \/ Called("start_run_stimulation")
                 \/ Called("stop_run_stimulation")
              /\ BaselineRun(nic_ret'.run) )
            => nic_ret'.value = "True" /\ UNCHANGED nic
         ]_vars

\* with a protocol loaded and started by hand, the manager was asked to stop
\* a baseline run of a counterbalanced subject: the stimulation is still on
C35_Witness ==
    /\ nic_ret.call = "stop_run_stimulation"
    /\ nic_ret.run = 4
    /\ nic_ret.value = "True"
    /\ counterbalancing # NoCounterbalancing
    /\ stimulation_active
    /\ commands = <<"load_protocol", "start_stimulation">>
\* the parity of a subject ID made of digits, read off its last digit
EvenId(id) == id[Len(id)] \in {"0", "2", "4", "6", "8"}

\* the assignment the specification describes
DescribedCondition(even, r) ==
    IF r \in {2, 3} THEN (IF even THEN "active" ELSE "sham")
    ELSE IF r \in {6, 7} THEN (IF even THEN "sham" ELSE "active")
    ELSE "baseline"

\* C36: for a subject ID made only of digits and a run number in 1..8 the
\* stim_condition of the run is the same with stimulation disabled (the
\* fallback logic) and enabled (the manager's counterbalancing): even
\* subjects get 'active' in runs 2-3 and 'sham' in runs 6-7, odd subjects
\* the reverse, runs 1, 4, 5, 8 are 'baseline'; both assignments give the
\* subject each of active and sham in exactly two runs.
C36_FallbackMatchesManager ==
    (run_number # 0 /\ IsDigit(subject_id)) =>
        LET num == IntOf(subject_id) IN
        /\ stim_condition = DescribedCondition(EvenId(subject_id), run_number)
        /\ \A r \in 1..8 :
              FallbackCondition(num, r) = GenerateCounterbalancing(num)[r]
        /\ \A c \in {"active", "sham"} :
              /\ Cardinality({ r \in 1..8 : FallbackCondition(num, r) = c }) = 2
              /\ Cardinality({ r \in 1..8 :
                                 GenerateCounterbalancing(num)[r] = c }) = 2

\* an odd subject in run 6 of a task with stimulation disabled
C36_Witness ==
    /\ ~stimulation_enabled
    /\ subject_id = <<"1", "3">>
    /\ run_number = 6
    /\ stim_condition = "active"

\* C37: whenever start_block returned True the controller is stimulating
\* with the protocol of the current block, start_block returns False once
\* every block of the sequence has been ended, and a stimulating controller
\* is connected or in test mode.
C37_StartBlockStimulates ==
    /\ (block_ret.call = "start_block" /\ block_ret.value = "True")
         => /\ is_stimulating
            /\ ctl_protocol = protocol_sequence[current_block + 1]
    /\ (block_ret.call = "start_block"
          /\ current_block >= Len(protocol_sequence))
         => block_ret.value = "False"
    /\ is_stimulating => (connected \/ test_mode)

\* C38: every call of save_data on the way out writes the same path and the
\* same rows: once the file is written it holds the records of trial_data,
\* each once and in order, at the path of the run, however many calls
\* follow; without a record nothing is written; and cleanup runs a second
\* time like the first, ending the exit with nothing but the abort recorded.
C38_RepeatedFlushSameFile ==
    /\ [](writes > 0 => saved = trial_data /\ file_path = DataPath)
    /\ [](writes = 0 => saved = <<>> /\ file_path = NoPath)
    /\ [](trial_data = <<>> => writes = 0)
    /\ [](cleanups = 2 => pc \in {"finally", "exited"} /\ end_cause = "escape")
    /\ [][(writes > 0 /\ writes' > writes)
            => /\ saved' = saved
               /\ file_path' = file_path
               /\ trial_data' = trial_data]_vars

\* the abort path taken with a record: three writes, two cleanups
C38_Witness ==
    /\ pc = "exited"
    /\ end_cause = "escape"
    /\ trial_data # <<>>
    /\ writes = 3
    /\ cleanups = 2

====
